---- MODULE Spec2Model ----
(***************************************************************************)
(* Quality-aware affine-gap aligner (align454.c) and its Python binding    *)
(* (qxalign.c): the engine state, the alignment pipeline                   *)
(*   prepare -> align_init{,_semi} -> align -> locate_minscore -> trace    *)
(* and the CIGAR post-processing steps.                                    *)
(*                                                                         *)
(* Byte strings are TLA+ sequences (1-based); a C index i is s[i + 1].     *)
(* Heap buffers are functions over 0..cap-1; a NULL buffer is the empty    *)
(* function.  Packed CIGAR cells are integers (len << 4) | op.             *)
(***************************************************************************)
EXTENDS Integers, Sequences, FiniteSets, TLC

VARIABLES
    pc,                 \* position of the caller in the call protocol
    mode,               \* which initialiser was called: "none", "global", "semi"
    fault,              \* "none", or the undefined behaviour that was executed
    hist,               \* the post-processing calls made since asw_trace
    GAP_OPEN_EXTEND, GAP_EXTEND,
    match_penalty, mismatch_penalty, gopen_penalty, gext_penalty,
    phred_offset,
    db, db_len, subdb, subdb_len,
    query, qual, query_len, subquery, subquery_len,
    vecPen_m_act, vecPen_m1_act, vecIns_m_act, vecIns_m1_act,
    I_ext_m_act, I_ext_m1_act,
    vecPen_lastRow,     \* "null", "m" or "m1": the rolling row it aliases
    matTra,
    opt_score, opt_score_col,
    rcigar, cigar_begin, cigar_end, offset,
    db_seq, query_seq,  \* the Py_buffers the binding holds (qxalign.c)
    query_qual,
    default_qual,       \* the binding's buffer of assumed qualities
    err,                \* the exception raised by the last binding call
    prepares            \* prepare calls made through the binding

penvars  == <<GAP_OPEN_EXTEND, GAP_EXTEND, match_penalty, mismatch_penalty,
              gopen_penalty, gext_penalty>>
invars   == <<db, db_len, subdb, subdb_len, query, qual, query_len, subquery,
              subquery_len>>
rowvars  == <<vecPen_m_act, vecPen_m1_act, vecIns_m_act, vecIns_m1_act,
              I_ext_m_act, I_ext_m1_act>>
optvars  == <<opt_score, opt_score_col>>
cigvars  == <<rcigar, cigar_begin, cigar_end, offset>>
bindvars == <<db_seq, query_seq, query_qual, default_qual, err, prepares>>
vars     == <<pc, mode, fault, hist, penvars, bindvars, phred_offset, invars,
              rowvars, vecPen_lastRow, matTra, optvars, cigvars>>

(***************************************************************************)
(* Constants of the program                                                *)
(***************************************************************************)
PHRED_RANGE       == 94
AMBIGUOUS_BASE    == "N"
BAM_CIGAR_SHIFT   == 4
BAM_CIGAR_MASK    == (2 ^ BAM_CIGAR_SHIFT) - 1
BAM_CMATCH        == 0
BAM_CINS          == 1
BAM_CDEL          == 2
BAM_CSOFT_CLIP    == 4
BAM_CHARD_CLIP    == 5
BAM_CSEQ_MATCH    == 7
BAM_CSEQ_MISMATCH == 8

\* Defaults of the binding: penalties of Qxalign_new, offset of Qxalign_prepare
DEFAULT_MATCH           == -10
DEFAULT_MISMATCH        == 30
DEFAULT_GAP_OPEN_EXTEND == 50
DEFAULT_GAP_EXTEND      == 20
DEFAULT_PHRED_OFFSET    == 33

\* Content of storage that was allocated and never written
Undef == -(2 ^ 30)

Min2(a, b) == IF b < a THEN b ELSE a

(***************************************************************************)
(* Packed CIGAR cells: (len << BAM_CIGAR_SHIFT) | op.  The run lengths of  *)
(* the model stay far below 2^28, so the shift never drops a bit and, op   *)
(* being below 16, the bitwise or is an addition.                          *)
(***************************************************************************)
Pack(z, op) == (z * (2 ^ BAM_CIGAR_SHIFT)) + op
CigarOp(c)  == c % (BAM_CIGAR_MASK + 1)
CigarLen(c) == c \div (2 ^ BAM_CIGAR_SHIFT)

(***************************************************************************)
(* asw_init: the quality -> penalty tables.                                *)
(* weight(i) = 1.0 - pow(10.0, -((double)i + qN)/10.0), qN = -10 log10(.75)*)
(* i.e. 1 - 0.75 * 10^(-i/10).  Weight holds round(10^6 * weight(i)); with *)
(* |base| <= 100 the integer rounding below gives the value of the C       *)
(* expression 10 + round(weight * base) for every i in 0..93.              *)
(***************************************************************************)
WeightScale == 10 ^ 6
Weight ==
    << 250000, 404254, 526782, 624110, 701420, 762829, 811609, 850355,
       881133, 905581, 925000, 940425, 952678, 962411, 970142, 976283,
       981161, 985036, 988113, 990558, 992500, 994043, 995268, 996241,
       997014, 997628, 998116, 998504, 998811, 999056, 999250, 999404,
       999527, 999624, 999701, 999763, 999812, 999850, 999881, 999906,
       999925, 999940, 999953, 999962, 999970, 999976, 999981, 999985,
       999988, 999991, 999993, 999994, 999995, 999996, 999997, 999998,
       999998, 999999, 999999, 999999, 999999, 999999, 1000000, 1000000,
       1000000, 1000000, 1000000, 1000000, 1000000, 1000000, 1000000,
       1000000, 1000000, 1000000, 1000000, 1000000, 1000000, 1000000,
       1000000, 1000000, 1000000, 1000000, 1000000, 1000000, 1000000,
       1000000, 1000000, 1000000, 1000000, 1000000, 1000000, 1000000,
       1000000, 1000000 >>

\* C round(): to nearest, halves away from zero; here of a / b with b > 0
Round(a, b) ==
    IF a >= 0 THEN (2 * a + b) \div (2 * b)
              ELSE -((2 * (-a) + b) \div (2 * b))

\* the tables without the additive constant
PenaltyTableNoShift(base) ==
    [i \in 0..(PHRED_RANGE - 1) |-> Round(Weight[i + 1] * base, WeightScale)]

PenaltyTable(base) ==
    [i \in 0..(PHRED_RANGE - 1) |-> 10 + Round(Weight[i + 1] * base, WeightScale)]


(***************************************************************************)
(* Inputs of the model                                                     *)
(***************************************************************************)
MaxDbLen    == 3      \* longest reference of the exhaustive inputs
MaxQueryLen == 2      \* longest query of the exhaustive inputs
MaxClip     == 1      \* largest head / tail clip passed to a prepare call
MaxPost     == 4      \* post-processing calls explored after one trace
MaxPrepares == 2      \* prepare calls explored through the binding

Bases == {"A", "C", "N"}
\* quality bytes 'I' (PHRED 40) and '#' (PHRED 2) under offset 33
QualBytes == {DEFAULT_PHRED_OFFSET + 40, DEFAULT_PHRED_OFFSET + 2}

SeqsOf(S, lo, hi) == UNION {[1..n -> S] : n \in lo..hi}

PenaltyConfigs ==
    { [match |-> DEFAULT_MATCH, mismatch |-> DEFAULT_MISMATCH,
       goe |-> DEFAULT_GAP_OPEN_EXTEND, ge |-> DEFAULT_GAP_EXTEND] }

NULL == << >>

\* p_realloc: the old content up to the smaller size, the rest unwritten
Realloc(buf, n) ==
    [i \in 0..(n - 1) |-> IF i \in DOMAIN buf THEN buf[i] ELSE Undef]

(***************************************************************************)
(* asw_alloc followed by asw_init (Qxalign_new, Qxalign_init)              *)
(***************************************************************************)
InitWith(p) ==
    /\ pc = "ready" /\ mode = "none" /\ fault = "none"
    /\ hist = << >>
    /\ GAP_OPEN_EXTEND = p.goe
    /\ GAP_EXTEND = p.ge
    /\ match_penalty = PenaltyTable(p.match)
    /\ mismatch_penalty = PenaltyTable(p.mismatch)
    /\ gopen_penalty = PenaltyTable(p.goe)
    /\ gext_penalty = PenaltyTable(p.ge)
    /\ phred_offset = 0
    /\ db = << >> /\ db_len = 0 /\ subdb = 0 /\ subdb_len = 0
    /\ query = << >> /\ qual = << >> /\ query_len = 0
    /\ subquery = 0 /\ subquery_len = 0
    /\ vecPen_m_act = NULL /\ vecPen_m1_act = NULL
    /\ vecIns_m_act = NULL /\ vecIns_m1_act = NULL
    /\ I_ext_m_act = NULL /\ I_ext_m1_act = NULL
    /\ vecPen_lastRow = "null"
    /\ matTra = [r \in 0..0 |-> NULL]
    /\ opt_score = Undef /\ opt_score_col = Undef
    /\ rcigar = NULL /\ cigar_begin = Undef /\ cigar_end = Undef
    /\ offset = 0
    /\ db_seq = << >> /\ query_seq = << >> /\ query_qual = << >>
    /\ default_qual = NULL
    /\ err = "none" /\ prepares = 0

Init == \E p \in PenaltyConfigs : InitWith(p)

(***************************************************************************)
(* resize_matrix1: rows beyond the new height are freed, new rows are      *)
(* allocated with the new width, and the rows that stay are reallocated    *)
(* when the width changes.                                                 *)
(***************************************************************************)
resize_matrix1(mat, old_x, old_y, new_x, new_y) ==
    [r \in 0..new_y |->
        IF r > old_y
        THEN Realloc(NULL, new_x + 1)
        ELSE IF old_x # new_x THEN Realloc(mat[r], new_x + 1) ELSE mat[r]]

\* the six rolling rows, reallocated when the reference width changes
ResizeRows(m_subdb_len) ==
    IF subdb_len # m_subdb_len
    THEN /\ vecPen_m1_act' = Realloc(vecPen_m1_act, m_subdb_len + 1)
         /\ vecPen_m_act'  = Realloc(vecPen_m_act, m_subdb_len + 1)
         /\ vecIns_m1_act' = Realloc(vecIns_m1_act, m_subdb_len + 1)
         /\ vecIns_m_act'  = Realloc(vecIns_m_act, m_subdb_len + 1)
         /\ I_ext_m_act'   = Realloc(I_ext_m_act, m_subdb_len + 1)
         /\ I_ext_m1_act'  = Realloc(I_ext_m1_act, m_subdb_len + 1)
    ELSE UNCHANGED rowvars

asw_prepare_query(m_query, m_qual, clip_head, clip_tail) ==
    LET m_subquery_len == Len(m_query) - clip_head - clip_tail IN
    /\ query_len' = Len(m_query)
    /\ query' = m_query
    /\ subquery' = clip_head
    /\ qual' = m_qual
    /\ matTra' = resize_matrix1(matTra, subdb_len, subquery_len,
                                subdb_len, m_subquery_len)
    /\ subquery_len' = m_subquery_len
    /\ UNCHANGED <<db, db_len, subdb, subdb_len, rowvars>>

asw_prepare_db(m_db, clip_head, clip_tail) ==
    LET m_subdb_len == Len(m_db) - clip_head - clip_tail IN
    /\ db' = m_db
    /\ db_len' = Len(m_db)
    /\ subdb' = clip_head
    /\ matTra' = resize_matrix1(matTra, subdb_len, subquery_len,
                                m_subdb_len, subquery_len)
    /\ ResizeRows(m_subdb_len)
    /\ subdb_len' = m_subdb_len
    /\ UNCHANGED <<query, qual, query_len, subquery, subquery_len>>

asw_prepare(m_db, m_query, m_qual, clip_head, clip_tail) ==
    LET m_subdb_len    == Len(m_db) - clip_head - clip_tail
        m_subquery_len == Len(m_query) - clip_head - clip_tail
    IN
    /\ db' = m_db
    /\ db_len' = Len(m_db)
    /\ query_len' = Len(m_query)
    /\ subdb' = clip_head
    /\ query' = m_query
    /\ subquery' = clip_head
    /\ qual' = m_qual
    /\ matTra' = resize_matrix1(matTra, subdb_len, subquery_len,
                                m_subdb_len, m_subquery_len)
    /\ subquery_len' = m_subquery_len
    /\ ResizeRows(m_subdb_len)
    /\ subdb_len' = m_subdb_len


(***************************************************************************)
(* Allocation failure.  The allocator calls of one prepare are numbered    *)
(* from 0 in the order the code makes them; the k-th returns NULL.         *)
(***************************************************************************)
\* a pointer to a block that was freed or moved, and a pointer never set
Freed == (-1 :> 0)
Wild  == (-2 :> 0)

\* allocator calls of resize_matrix1: the row-pointer array and the new
\* rows when the height changes, the rows that stay when the width changes
ResizeHeightAllocs(old_y, new_y) ==
    IF old_y = new_y THEN 0
    ELSE 1 + (IF new_y > old_y THEN new_y - old_y ELSE 0)
ResizeWidthAllocs(old_x, old_y, new_x, new_y) ==
    IF old_x = new_x THEN 0 ELSE Min2(old_y, new_y) + 1
ResizeAllocs(old_x, old_y, new_x, new_y) ==
    ResizeHeightAllocs(old_y, new_y)
        + ResizeWidthAllocs(old_x, old_y, new_x, new_y)

\* what al->matTra designates after resize_matrix1 returned NULL at its
\* k-th allocator call; moved: the realloc of the row-pointer array, when
\* it succeeded, returned another address
resize_matrix1_nomem(mat, old_x, old_y, new_x, new_y, k, moved) ==
    LET nY == ResizeHeightAllocs(old_y, new_y)
        lo == Min2(old_y, new_y)
        \* the old array after "first free the bottom half"
        bottomFreed == [r \in 0..old_y |->
                          IF r > new_y THEN Freed ELSE mat[r]]
        \* the reallocated array when the call failed later
        arr == [r \in 0..new_y |->
                  IF r <= lo
                  THEN IF old_x # new_x /\ r < k - nY
                       THEN Realloc(mat[r], new_x + 1) ELSE mat[r]
                  ELSE IF r - old_y < k THEN Realloc(NULL, new_x + 1)
                  ELSE IF r - old_y = k THEN NULL
                  ELSE Wild]
    IN  IF old_y # new_y /\ k = 0 THEN bottomFreed
        ELSE IF old_y # new_y /\ moved THEN Freed
        ELSE arr

\* the rolling rows when the j-th of their six reallocs returned NULL
ResizeRowsNoMem(m_subdb_len, j) ==
    /\ vecPen_m1_act' = IF j > 0 THEN Realloc(vecPen_m1_act, m_subdb_len + 1)
                                 ELSE vecPen_m1_act
    /\ vecPen_m_act'  = IF j > 1 THEN Realloc(vecPen_m_act, m_subdb_len + 1)
                                 ELSE vecPen_m_act
    /\ vecIns_m1_act' = IF j > 2 THEN Realloc(vecIns_m1_act, m_subdb_len + 1)
                                 ELSE vecIns_m1_act
    /\ vecIns_m_act'  = IF j > 3 THEN Realloc(vecIns_m_act, m_subdb_len + 1)
                                 ELSE vecIns_m_act
    /\ I_ext_m_act'   = IF j > 4 THEN Realloc(I_ext_m_act, m_subdb_len + 1)
                                 ELSE I_ext_m_act
    /\ I_ext_m1_act'  = I_ext_m1_act

\* allocator calls of asw_prepare for the new view lengths
PrepareAllocs(m_subdb_len, m_subquery_len) ==
    ResizeAllocs(subdb_len, subquery_len, m_subdb_len, m_subquery_len)
        + (IF subdb_len # m_subdb_len THEN 6 ELSE 0)

\* asw_prepare returning -1 because its k-th allocator call failed
asw_prepare_nomem(m_db, m_query, m_qual, clip_head, clip_tail, k, moved) ==
    LET m_subdb_len    == Len(m_db) - clip_head - clip_tail
        m_subquery_len == Len(m_query) - clip_head - clip_tail
        nR == ResizeAllocs(subdb_len, subquery_len, m_subdb_len,
                           m_subquery_len)
    IN
    /\ db' = m_db
    /\ db_len' = Len(m_db)
    /\ query_len' = Len(m_query)
    /\ subdb' = clip_head
    /\ query' = m_query
    /\ subquery' = clip_head
    /\ qual' = m_qual
    /\ IF k < nR
       THEN /\ matTra' = resize_matrix1_nomem(matTra, subdb_len, subquery_len,
                              m_subdb_len, m_subquery_len, k, moved)
            /\ UNCHANGED <<subquery_len, subdb_len, rowvars>>
       ELSE /\ matTra' = resize_matrix1(matTra, subdb_len, subquery_len,
                              m_subdb_len, m_subquery_len)
            /\ subquery_len' = m_subquery_len
            /\ ResizeRowsNoMem(m_subdb_len, k - nR)
            /\ UNCHANGED subdb_len

\* asw_free of the engine: what goes wrong when it walks the trace matrix
\* through the recorded subquery_len
FreeFault ==
    IF matTra = Freed THEN "use_after_free"
    ELSE IF \E r \in 0..subquery_len : r \notin DOMAIN matTra
    THEN "oob_read"
    ELSE IF \E r \in 0..subquery_len : matTra[r] = Freed THEN "double_free"
    ELSE IF \E r \in 0..subquery_len : matTra[r] = Wild THEN "wild_free"
    ELSE IF \E r \in DOMAIN matTra :
              r > subquery_len /\ matTra[r] \notin {NULL, Freed, Wild}
    THEN "leak"
    ELSE "none"

(***************************************************************************)
(* Views of the inputs                                                     *)
(***************************************************************************)
\* m_subdb[n], m_subquery[m], and m_subqual[m] less the PHRED offset
SubDbAt(n)    == db[subdb + n + 1]
SubQueryAt(m) == query[subquery + m + 1]
SubQualAt(m)  == qual[subquery + m + 1] - phred_offset

IS_MATCH(a, b) == (a = b) \/ (b = AMBIGUOUS_BASE)

(***************************************************************************)
(* asw_align_init_semi / asw_align_init: row 0                             *)
(***************************************************************************)
\* gopen_penalty[qq] - gext_penalty[qq] at the quality of query position 0
GopenTruePen == gopen_penalty[SubQualAt(0)] - gext_penalty[SubQualAt(0)]

RECURSIVE InitStoredDel(_)
\* storedDel_score of asw_align_init after n1 turns of its loop
InitStoredDel(n1) ==
    IF n1 = 0 THEN 0 + (GAP_OPEN_EXTEND - GAP_EXTEND)
              ELSE InitStoredDel(n1 - 1) + GAP_EXTEND

\* a semi-global row 0 that charges the leading reference bases
InitPenSemiCharged(n1) == n1 * GAP_EXTEND

\* vecPen_m[n1] as written by the global / the semi-global initialiser
InitPenGlobal(n1) == IF n1 = 0 THEN 0 ELSE InitStoredDel(n1)
InitPenSemi(n1)   == 0

\* a row 0 of deletions only, without the cell that ends the traceback
InitTraAllDel(n1) == Pack(n1, BAM_CDEL)

\* rowTra[n1] of row 0
InitTra(n1) ==
    IF n1 = 0 THEN Pack(0, BAM_CSEQ_MATCH) ELSE Pack(n1, BAM_CDEL)

\* vecPen_m[n1] as written by the initialiser of mode md
InitPen(md, n1) ==
    IF md = "semi" THEN InitPenSemi(n1) ELSE InitPenGlobal(n1)

\* an initialiser that zeroes the insertion lengths of a new row only and
\* leaves those of the last use
InitRowsKeepsLengths(md) ==
    [ pen |-> [n1 \in DOMAIN vecPen_m_act |->
            IF n1 <= subdb_len THEN InitPen(md, n1) ELSE vecPen_m_act[n1]],
      ins |-> [n1 \in DOMAIN vecIns_m_act |->
            IF n1 <= subdb_len THEN InitPen(md, n1) + GopenTruePen
                               ELSE vecIns_m_act[n1]],
      ext |-> [n1 \in DOMAIN I_ext_m_act |->
            IF I_ext_m_act[n1] = Undef THEN 0 ELSE I_ext_m_act[n1]],
      tra |-> [matTra EXCEPT ![0] = [n1 \in DOMAIN matTra[0] |->
            IF n1 <= subdb_len THEN InitTra(n1) ELSE matTra[0][n1]]] ]

\* the "m" rows and the trace matrix as the initialiser of mode md leaves
\* them
InitRows(md) ==
    [ pen |-> [n1 \in DOMAIN vecPen_m_act |->
            IF n1 <= subdb_len THEN InitPen(md, n1) ELSE vecPen_m_act[n1]],
      ins |-> [n1 \in DOMAIN vecIns_m_act |->
            IF n1 <= subdb_len THEN InitPen(md, n1) + GopenTruePen
                               ELSE vecIns_m_act[n1]],
      ext |-> [n1 \in DOMAIN I_ext_m_act |->
            IF n1 <= subdb_len THEN 0 ELSE I_ext_m_act[n1]],
      tra |-> [matTra EXCEPT ![0] = [n1 \in DOMAIN matTra[0] |->
            IF n1 <= subdb_len THEN InitTra(n1) ELSE matTra[0][n1]]] ]

\* the writes of the initialiser of mode md
AlignInitWrites(md) ==
    LET r == InitRows(md) IN
    /\ vecPen_m_act' = r.pen
    /\ vecIns_m_act' = r.ins
    /\ I_ext_m_act' = r.ext
    /\ matTra' = r.tra
    /\ UNCHANGED <<vecPen_m1_act, vecIns_m1_act, I_ext_m1_act>>

(***************************************************************************)
(* asw_align: the recurrence over one cell, one row, all rows              *)
(***************************************************************************)
\* an insertion taken on a tie with the substitution
ChooseMoveInsertFirst(wM, wI, wD) ==
    IF wI <= wM
    THEN (IF wD < wI THEN "D" ELSE "I")
    ELSE (IF wD < wM THEN "D" ELSE "M")

\* a deletion taken on a tie with the insertion
ChooseMoveDeleteFirst(wM, wI, wD) ==
    IF wI < wM
    THEN (IF wD <= wI THEN "D" ELSE "I")
    ELSE (IF wD < wM THEN "D" ELSE "M")

\* "Order of preference: M, I, D"
ChooseMove(wM, wI, wD) ==
    IF wI < wM
    THEN (IF wD < wI THEN "D" ELSE "I")
    ELSE (IF wD < wM THEN "D" ELSE "M")

\* the cell with a new gap opened when opening and extending cost the same
AlignCellPreferOpen(p, r, n1, cq, qi) ==
    LET n            == n1 - 1
        is_seq_match == IS_MATCH(SubDbAt(n), cq)
        wD_open      == r.pen[n] + GAP_OPEN_EXTEND
        wD_extend    == r.del + GAP_EXTEND
        wI_open      == p.pen[n1] + gopen_penalty[qi]
        wI_extend    == p.ins[n1] + gext_penalty[qi]
        wD           == IF wD_open <= wD_extend THEN wD_open ELSE wD_extend
        cD           == IF wD_open <= wD_extend THEN 1 ELSE r.cD + 1
        wI           == IF wI_open <= wI_extend THEN wI_open ELSE wI_extend
        cI           == IF wI_open <= wI_extend THEN 1 ELSE p.ext[n1] + 1
        wM           == p.pen[n] + (IF is_seq_match THEN match_penalty[qi]
                                                    ELSE mismatch_penalty[qi])
        mstate       == IF is_seq_match THEN BAM_CSEQ_MATCH
                                        ELSE BAM_CSEQ_MISMATCH
        move         == ChooseMove(wM, wI, wD)
    IN  [ pen |-> [r.pen EXCEPT ![n1] =
                     CASE move = "D" -> wD [] move = "I" -> wI [] OTHER -> wM],
          ins |-> [r.ins EXCEPT ![n1] = wI],
          ext |-> [r.ext EXCEPT ![n1] = cI],
          tra |-> [r.tra EXCEPT ![n1] =
                     CASE move = "D" -> Pack(cD, BAM_CDEL)
                       [] move = "I" -> Pack(cI, BAM_CINS)
                       [] OTHER      -> Pack(1, mstate)],
          del |-> wD,
          cD  |-> cD ]

\* the cell with the deletion candidates taken from the quality tables
AlignCellWeightedDel(p, r, n1, cq, qi) ==
    LET n            == n1 - 1
        is_seq_match == IS_MATCH(SubDbAt(n), cq)
        wD_open      == r.pen[n] + gopen_penalty[qi]
        wD_extend    == r.del + gext_penalty[qi]
        wI_open      == p.pen[n1] + gopen_penalty[qi]
        wI_extend    == p.ins[n1] + gext_penalty[qi]
        wD           == IF wD_open < wD_extend THEN wD_open ELSE wD_extend
        cD           == IF wD_open < wD_extend THEN 1 ELSE r.cD + 1
        wI           == IF wI_open < wI_extend THEN wI_open ELSE wI_extend
        cI           == IF wI_open < wI_extend THEN 1 ELSE p.ext[n1] + 1
        wM           == p.pen[n] + (IF is_seq_match THEN match_penalty[qi]
                                                    ELSE mismatch_penalty[qi])
        mstate       == IF is_seq_match THEN BAM_CSEQ_MATCH
                                        ELSE BAM_CSEQ_MISMATCH
        move         == ChooseMove(wM, wI, wD)
    IN  [ pen |-> [r.pen EXCEPT ![n1] =
                     CASE move = "D" -> wD [] move = "I" -> wI [] OTHER -> wM],
          ins |-> [r.ins EXCEPT ![n1] = wI],
          ext |-> [r.ext EXCEPT ![n1] = cI],
          tra |-> [r.tra EXCEPT ![n1] =
                     CASE move = "D" -> Pack(cD, BAM_CDEL)
                       [] move = "I" -> Pack(cI, BAM_CINS)
                       [] OTHER      -> Pack(1, mstate)],
          del |-> wD,
          cD  |-> cD ]

\* the cell with an extended gap recorded one longer than it is
AlignCellLongRuns(p, r, n1, cq, qi) ==
    LET n            == n1 - 1
        is_seq_match == IS_MATCH(SubDbAt(n), cq)
        wD_open      == r.pen[n] + GAP_OPEN_EXTEND
        wD_extend    == r.del + GAP_EXTEND
        wI_open      == p.pen[n1] + gopen_penalty[qi]
        wI_extend    == p.ins[n1] + gext_penalty[qi]
        wD           == IF wD_open < wD_extend THEN wD_open ELSE wD_extend
        cD           == IF wD_open < wD_extend THEN 1 ELSE r.cD + 2
        wI           == IF wI_open < wI_extend THEN wI_open ELSE wI_extend
        cI           == IF wI_open < wI_extend THEN 1 ELSE p.ext[n1] + 2
        wM           == p.pen[n] + (IF is_seq_match THEN match_penalty[qi]
                                                    ELSE mismatch_penalty[qi])
        mstate       == IF is_seq_match THEN BAM_CSEQ_MATCH
                                        ELSE BAM_CSEQ_MISMATCH
        move         == ChooseMove(wM, wI, wD)
    IN  [ pen |-> [r.pen EXCEPT ![n1] =
                     CASE move = "D" -> wD [] move = "I" -> wI [] OTHER -> wM],
          ins |-> [r.ins EXCEPT ![n1] = wI],
          ext |-> [r.ext EXCEPT ![n1] = cI],
          tra |-> [r.tra EXCEPT ![n1] =
                     CASE move = "D" -> Pack(cD, BAM_CDEL)
                       [] move = "I" -> Pack(cI, BAM_CINS)
                       [] OTHER      -> Pack(1, mstate)],
          del |-> wD,
          cD  |-> cD ]

\* p: previous row [pen, ins, ext]; r: the row being filled
\* [pen, ins, ext, tra, del, cD]; qi: table index of the row's quality
AlignCell(p, r, n1, cq, qi) ==
    LET n            == n1 - 1
        is_seq_match == IS_MATCH(SubDbAt(n), cq)
        wD_open      == r.pen[n] + GAP_OPEN_EXTEND
        wD_extend    == r.del + GAP_EXTEND
        wI_open      == p.pen[n1] + gopen_penalty[qi]
        wI_extend    == p.ins[n1] + gext_penalty[qi]
        wD           == IF wD_open < wD_extend THEN wD_open ELSE wD_extend
        cD           == IF wD_open < wD_extend THEN 1 ELSE r.cD + 1
        wI           == IF wI_open < wI_extend THEN wI_open ELSE wI_extend
        cI           == IF wI_open < wI_extend THEN 1 ELSE p.ext[n1] + 1
        wM           == p.pen[n] + (IF is_seq_match THEN match_penalty[qi]
                                                    ELSE mismatch_penalty[qi])
        mstate       == IF is_seq_match THEN BAM_CSEQ_MATCH
                                        ELSE BAM_CSEQ_MISMATCH
        move         == ChooseMove(wM, wI, wD)
    IN  [ pen |-> [r.pen EXCEPT ![n1] =
                     CASE move = "D" -> wD [] move = "I" -> wI [] OTHER -> wM],
          ins |-> [r.ins EXCEPT ![n1] = wI],
          ext |-> [r.ext EXCEPT ![n1] = cI],
          tra |-> [r.tra EXCEPT ![n1] =
                     CASE move = "D" -> Pack(cD, BAM_CDEL)
                       [] move = "I" -> Pack(cI, BAM_CINS)
                       [] OTHER      -> Pack(1, mstate)],
          del |-> wD,
          cD  |-> cD ]

RECURSIVE AlignCols(_, _, _, _, _)
AlignCols(p, r, n1, cq, qi) ==
    IF n1 > subdb_len THEN r
    ELSE AlignCols(p, AlignCell(p, r, n1, cq, qi), n1 + 1, cq, qi)

\* row m + 1: the leftmost column, then the columns 1..subdb_len
\* p: the "m" rows, c: the "m1" rows (overwritten), rowTra: matTra[m + 1]
AlignRow(p, c, rowTra, m) ==
    LET cq        == SubQueryAt(m)
        qi        == SubQualAt(m)
        wI_extend == p.ins[0] + gext_penalty[qi]
        cI        == p.ext[0] + 1
        r0        == [ pen |-> [c.pen EXCEPT ![0] = wI_extend],
                       ins |-> [c.ins EXCEPT ![0] = wI_extend],
                       ext |-> [c.ext EXCEPT ![0] = cI],
                       tra |-> [rowTra EXCEPT ![0] = Pack(cI, BAM_CINS)],
                       del |-> wI_extend + (GAP_OPEN_EXTEND - GAP_EXTEND),
                       cD  |-> 0 ]
    IN  AlignCols(p, r0, 1, cq, qi)

RECURSIVE AlignRowsNoSwap(_, _, _, _)
\* asw_align without the exchange of the two rolling rows after each row
AlignRowsNoSwap(m, a, b, tra) ==
    IF m >= subquery_len THEN [m |-> a, m1 |-> b, tra |-> tra]
    ELSE LET r == AlignRow(a, b, tra[m + 1], m) IN
         AlignRowsNoSwap(m + 1,
                   a,
                   [pen |-> r.pen, ins |-> r.ins, ext |-> r.ext],
                   [tra EXCEPT ![m + 1] = r.tra])

RECURSIVE AlignRows(_, _, _, _)
\* after m rows: a = the local vec*_m (last row written), b = the local
\* vec*_m1, tra = the trace matrix; the locals are swapped after each row
AlignRows(m, a, b, tra) ==
    IF m >= subquery_len THEN [m |-> a, m1 |-> b, tra |-> tra]
    ELSE LET r == AlignRow(a, b, tra[m + 1], m) IN
         AlignRows(m + 1,
                   [pen |-> r.pen, ins |-> r.ins, ext |-> r.ext],
                   a,
                   [tra EXCEPT ![m + 1] = r.tra])

AlignResult ==
    AlignRows(0,
        [pen |-> vecPen_m_act, ins |-> vecIns_m_act, ext |-> I_ext_m_act],
        [pen |-> vecPen_m1_act, ins |-> vecIns_m1_act, ext |-> I_ext_m1_act],
        matTra)

(***************************************************************************)
(* asw_locate_minscore                                                     *)
(***************************************************************************)
LastRow == IF vecPen_lastRow = "m1" THEN vecPen_m1_act ELSE vecPen_m_act

RECURSIVE LocateScan(_, _, _, _)
\* the loop over n1 = 1..subdb_len, carrying (opt_score, opt_score_col)
LocateScan(row, n1, score, col) ==
    IF n1 > subdb_len THEN [score |-> score, col |-> col]
    ELSE IF row[n1] < score
         THEN LocateScan(row, n1 + 1, row[n1], n1)
         ELSE LocateScan(row, n1 + 1, score, col)

\* the score of the last column, whatever the rest of the row holds
LocateLastColumn(row) == [score |-> row[subdb_len], col |-> subdb_len]

\* the minimum, at the last of the columns that hold it
LocateMinLast(row) ==
    LET cols == {n1 \in 0..subdb_len :
                    \A k \in 0..subdb_len : row[n1] <= row[k]}
        last == CHOOSE n1 \in cols : \A k \in cols : k <= n1
    IN  [score |-> row[last], col |-> last]

LocateMin(row) == LocateScan(row, 1, row[0], 0)


(***************************************************************************)
(* asw_trace                                                               *)
(***************************************************************************)
InTra(m1, n1) == m1 \in DOMAIN matTra /\ n1 \in DOMAIN matTra[m1]

RECURSIVE TraceRun(_, _, _, _, _)
\* the do-while of a '=' (or 'X') run: from cell (m1, n1) of length z, walk
\* the diagonal while the cell read has the same op and m1 > 0
TraceRun(m1, n1, z, op, num) ==
    LET num2 == num + z
        m2   == m1 - z
        n2   == n1 - z
    IN  IF ~InTra(m2, n2) THEN [status |-> "oob_read"]
        ELSE LET c == matTra[m2][n2] IN
             IF CigarOp(c) = op /\ m2 > 0
             THEN TraceRun(m2, n2, CigarLen(c), op, num2)
             ELSE [status |-> "ok", m1 |-> m2, n1 |-> n2, cigar |-> c,
                   num |-> num2]

RECURSIVE TraceLoop(_, _, _, _, _)
\* while (m1 > 0) switch (state): cigar is the cell last read, rc the
\* reverse iterator into buf
TraceLoop(m1, n1, cigar, rc, buf) ==
    IF m1 <= 0 THEN [status |-> "ok", n1 |-> n1, rc |-> rc, buf |-> buf]
    ELSE
    LET z     == CigarLen(cigar)
        state == CigarOp(cigar)
    IN
    IF state \in {BAM_CSEQ_MATCH, BAM_CSEQ_MISMATCH} THEN
        LET run == TraceRun(m1, n1, z, state, 0) IN
        IF run.status # "ok" THEN [status |-> run.status, buf |-> buf]
        ELSE IF rc \notin DOMAIN buf
        THEN [status |-> "oob_write", buf |-> buf]
        ELSE TraceLoop(run.m1, run.n1, run.cigar, rc - 1,
                       [buf EXCEPT ![rc] = Pack(run.num, state)])
    ELSE IF state \in {BAM_CDEL, BAM_CINS} THEN
        LET m2 == IF state = BAM_CINS THEN m1 - z ELSE m1
            n2 == IF state = BAM_CDEL THEN n1 - z ELSE n1
        IN
        IF rc \notin DOMAIN buf THEN [status |-> "oob_write", buf |-> buf]
        ELSE IF ~InTra(m2, n2)
        THEN [status |-> "oob_read", buf |-> [buf EXCEPT ![rc] = cigar]]
        ELSE TraceLoop(m2, n2, matTra[m2][n2], rc - 1,
                       [buf EXCEPT ![rc] = cigar])
    ELSE [status |-> "bad_op", buf |-> buf]

\* the whole of asw_trace on the current engine
TraceResult ==
    LET buf == Realloc(rcigar, subquery_len + 4) IN
    TraceLoop(subquery_len, opt_score_col,
              matTra[subquery_len][opt_score_col], subquery_len + 1, buf)


(***************************************************************************)
(* CIGAR post-processing.  A step works on the record                      *)
(*   [buf, b, e, off, status] = (rcigar, cigar_begin, cigar_end, offset)   *)
(* offset is a size_t: the model keeps its value as a signed integer, so   *)
(* -1 stands for the wrapped SIZE_MAX.                                     *)
(***************************************************************************)
Cig == [buf |-> rcigar, b |-> cigar_begin, e |-> cigar_end, off |-> offset,
        status |-> "none"]

\* a store through a CIGAR pointer; outside the buffer it is undefined
Put(c, i, v) ==
    IF i \in DOMAIN c.buf THEN [c EXCEPT !.buf[i] = v]
                          ELSE [c EXCEPT !.status = "oob_write"]

Worse(s1, s2) ==
    IF "oob_write" \in {s1, s2} THEN "oob_write"
    ELSE IF "oob_read" \in {s1, s2} THEN "oob_read" ELSE "none"

\* bytes a read outside the reference buffer may return
JunkBytes == Bases \cup {"?"}
JunkFor(n) == [1..n -> JunkBytes]

\* the byte at db[i]; junk when i lies outside the caller's buffer
DbByteAt(i, junk, k) == IF 0 <= i /\ i < db_len THEN db[i + 1] ELSE junk[k]

RECURSIVE HeadMatchAdd(_, _, _, _)
\* while (clip_head > 0u && *--subquery == *--subdb): the k-th comparison
HeadMatchAdd(k, clip_head, off, junk) ==
    IF k > clip_head THEN 0
    ELSE IF query[(subquery - k) + 1] = DbByteAt(subdb + off - k, junk, k)
         THEN 1 + HeadMatchAdd(k + 1, clip_head, off, junk)
         ELSE 0

RECURSIVE TailMatchAdd(_, _, _, _)
\* while (clip_tail > 0u && *++subquery == *++subdb): the k-th comparison
TailMatchAdd(k, clip_tail, off, junk) ==
    IF k > clip_tail THEN 0
    ELSE IF query[(subquery + subquery_len - 1 + k) + 1]
              = DbByteAt(subdb + off + subdb_len - 1 + k, junk, k)
         THEN 1 + TailMatchAdd(k + 1, clip_tail, off, junk)
         ELSE 0

\* the clipped beginning
SoftclipHead(c, junk) ==
    LET clip_head == subquery IN
    IF clip_head = 0 THEN c
    ELSE
    LET cigar == c.buf[c.b]
        state == CigarOp(cigar)
        z     == CigarLen(cigar)
    IN
    IF state = BAM_CSOFT_CLIP
    THEN Put(c, c.b, Pack(clip_head + z, BAM_CSOFT_CLIP))
    ELSE IF state \in {BAM_CSEQ_MATCH, BAM_CMATCH}
    THEN LET match_add == HeadMatchAdd(1, clip_head, c.off, junk)
             tried     == Min2(match_add + 1, clip_head)
             rd        == IF subdb + c.off - tried < 0 THEN "oob_read"
                                                             ELSE "none"
             c1 == IF match_add > 0
                   THEN [Put(c, c.b, Pack(z + match_add, state))
                            EXCEPT !.off = c.off - match_add]
                   ELSE c
             c2 == IF clip_head - match_add > 0
                   THEN Put([c1 EXCEPT !.b = c1.b - 1], c1.b - 1,
                            Pack(clip_head - match_add, BAM_CSOFT_CLIP))
                   ELSE c1
         IN  [c2 EXCEPT !.status = Worse(c2.status, rd)]
    ELSE Put([c EXCEPT !.b = c.b - 1], c.b - 1,
             Pack(clip_head, BAM_CSOFT_CLIP))

\* the clipped end, the S op keeping the bases the contraction matched
SoftclipTailKeepsClip(c, junk) ==
    LET clip_tail == query_len - (subquery + subquery_len) IN
    IF clip_tail = 0 THEN c
    ELSE
    LET cigar == c.buf[c.e - 1]
        state == CigarOp(cigar)
        z     == CigarLen(cigar)
    IN
    IF state = BAM_CSOFT_CLIP
    THEN Put(c, c.e - 1, Pack(clip_tail + z, BAM_CSOFT_CLIP))
    ELSE IF state \in {BAM_CSEQ_MATCH, BAM_CMATCH}
    THEN LET match_add == TailMatchAdd(1, clip_tail, c.off, junk)
             c1 == IF match_add > 0
                   THEN Put(c, c.e - 1, Pack(z + match_add, state))
                   ELSE c
         IN  [Put(c1, c1.e, Pack(clip_tail, BAM_CSOFT_CLIP))
                 EXCEPT !.e = c1.e + 1]
    ELSE [Put(c, c.e, Pack(clip_tail, BAM_CSOFT_CLIP)) EXCEPT !.e = c.e + 1]

\* the clipped end
SoftclipTail(c, junk) ==
    LET clip_tail == query_len - (subquery + subquery_len) IN
    IF clip_tail = 0 THEN c
    ELSE
    LET cigar == c.buf[c.e - 1]
        state == CigarOp(cigar)
        z     == CigarLen(cigar)
    IN
    IF state = BAM_CSOFT_CLIP
    THEN Put(c, c.e - 1, Pack(clip_tail + z, BAM_CSOFT_CLIP))
    ELSE IF state \in {BAM_CSEQ_MATCH, BAM_CMATCH}
    THEN LET match_add == TailMatchAdd(1, clip_tail, c.off, junk)
             tried     == Min2(match_add + 1, clip_tail)
             rd        == IF subdb + c.off + subdb_len - 1 + tried >= db_len
                          THEN "oob_read" ELSE "none"
             c1 == IF match_add > 0
                   THEN Put(c, c.e - 1, Pack(z + match_add, state))
                   ELSE c
             c2 == IF clip_tail - match_add > 0
                   THEN [Put(c1, c1.e, Pack(clip_tail - match_add,
                                            BAM_CSOFT_CLIP))
                            EXCEPT !.e = c1.e + 1]
                   ELSE c1
         IN  [c2 EXCEPT !.status = Worse(c2.status, rd)]
    ELSE [Put(c, c.e, Pack(clip_tail, BAM_CSOFT_CLIP)) EXCEPT !.e = c.e + 1]

asw_append_softclip(c, jh, jt) == SoftclipTail(SoftclipHead(c, jh), jt)

asw_append_hardclip(c, clip_head, clip_tail) ==
    LET h == IF clip_head = 0 THEN c
             ELSE IF CigarOp(c.buf[c.b]) = BAM_CHARD_CLIP
             THEN Put(c, c.b, Pack(clip_head + CigarLen(c.buf[c.b]),
                                   BAM_CHARD_CLIP))
             ELSE Put([c EXCEPT !.b = c.b - 1], c.b - 1,
                      Pack(clip_head, BAM_CHARD_CLIP))
    IN  IF clip_tail = 0 \/ h.status = "oob_write" THEN h
        ELSE IF CigarOp(h.buf[h.e - 1]) = BAM_CHARD_CLIP
        THEN Put(h, h.e - 1, Pack(clip_tail + CigarLen(h.buf[h.e - 1]),
                                  BAM_CHARD_CLIP))
        ELSE [Put(h, h.e, Pack(clip_tail, BAM_CHARD_CLIP))
                 EXCEPT !.e = h.e + 1]

RECURSIVE SoftTailScan(_, _, _, _)
\* for (; rc3p != rc; --rc3p): stops at the last '=', sums what is neither
\* D nor H
SoftTailScan(buf, rc3p, rc, soft) ==
    IF rc3p = rc THEN [p |-> rc3p, soft |-> soft]
    ELSE LET state == CigarOp(buf[rc3p]) IN
         IF state = BAM_CSEQ_MATCH THEN [p |-> rc3p, soft |-> soft]
         ELSE IF state # BAM_CDEL /\ state # BAM_CHARD_CLIP
         THEN SoftTailScan(buf, rc3p - 1, rc, soft + CigarLen(buf[rc3p]))
         ELSE SoftTailScan(buf, rc3p - 1, rc, soft)

RECURSIVE SoftHeadScan(_, _, _, _, _)
\* for (; fc5p != fc3p; ++fc5p): stops at the first '='
SoftHeadScan(buf, fc5p, fc3p, soft, off) ==
    IF fc5p = fc3p THEN [p |-> fc5p, soft |-> soft, off |-> off]
    ELSE LET state  == CigarOp(buf[fc5p])
             op_len == CigarLen(buf[fc5p])
         IN
         IF state = BAM_CSEQ_MATCH
         THEN [p |-> fc5p, soft |-> soft, off |-> off]
         ELSE IF state # BAM_CHARD_CLIP
         THEN SoftHeadScan(buf, fc5p + 1, fc3p,
                  IF state # BAM_CDEL THEN soft + op_len ELSE soft,
                  IF state # BAM_CINS THEN off + op_len ELSE off)
         ELSE SoftHeadScan(buf, fc5p + 1, fc3p, soft, off)

\* only the tail is clipped
SoftclipTailOnly(c) ==
    LET t    == SoftTailScan(c.buf, c.e - 1, c.b - 1, 0)
        rc3p == IF t.soft > 0 THEN t.p + 1 ELSE t.p
        c1   == IF t.soft > 0 THEN Put(c, rc3p, Pack(t.soft, BAM_CSOFT_CLIP))
                              ELSE c
    IN  [c1 EXCEPT !.e = rc3p + 1]

asw_softclip_trace(c) ==
    LET t    == SoftTailScan(c.buf, c.e - 1, c.b - 1, 0)
        rc3p == IF t.soft > 0 THEN t.p + 1 ELSE t.p
        c1   == IF t.soft > 0 THEN Put(c, rc3p, Pack(t.soft, BAM_CSOFT_CLIP))
                              ELSE c
        fc3p == rc3p + 1
        h    == SoftHeadScan(c1.buf, c.b, fc3p, 0, c.off)
        fc5p == IF h.soft > 0 THEN h.p - 1 ELSE h.p
        c2   == IF h.soft > 0 THEN Put(c1, fc5p, Pack(h.soft, BAM_CSOFT_CLIP))
                              ELSE c1
    IN  [c2 EXCEPT !.off = h.off, !.b = fc5p, !.e = fc3p]

RECURSIVE CompactInnerExactOnly(_, _, _, _, _)
\* the inner loop fusing '=' ops only, an 'X' op copied like a gap
CompactInnerExactOnly(buf, rbucket, start_riter, rc, num_matches) ==
    LET cigar == buf[rbucket]
        state == CigarOp(cigar)
        rb    == rbucket - 1
    IN
    IF state = BAM_CSEQ_MATCH
    THEN LET num == num_matches + CigarLen(cigar) IN
         IF rb = rc
         THEN [buf |-> buf, rbucket |-> rb, start_riter |-> start_riter,
               cigar |-> Pack(num, BAM_CMATCH)]
         ELSE CompactInnerExactOnly(buf, rb, start_riter, rc, num)
    ELSE IF num_matches > 0
    THEN [buf |-> [buf EXCEPT ![start_riter] = Pack(num_matches, BAM_CMATCH)],
          rbucket |-> rb, start_riter |-> start_riter - 1, cigar |-> cigar]
    ELSE [buf |-> buf, rbucket |-> rb, start_riter |-> start_riter,
          cigar |-> cigar]

RECURSIVE CompactInner(_, _, _, _, _)
\* the while (1) of asw_compact_trace; returns the op left in `cigar`
CompactInner(buf, rbucket, start_riter, rc, num_matches) ==
    LET cigar == buf[rbucket]
        state == CigarOp(cigar)
        rb    == rbucket - 1
    IN
    IF state \in {BAM_CSEQ_MATCH, BAM_CSEQ_MISMATCH}
    THEN LET num == num_matches + CigarLen(cigar) IN
         IF rb = rc
         THEN [buf |-> buf, rbucket |-> rb, start_riter |-> start_riter,
               cigar |-> Pack(num, BAM_CMATCH)]
         ELSE CompactInner(buf, rb, start_riter, rc, num)
    ELSE IF num_matches > 0
    THEN [buf |-> [buf EXCEPT ![start_riter] = Pack(num_matches, BAM_CMATCH)],
          rbucket |-> rb, start_riter |-> start_riter - 1, cigar |-> cigar]
    ELSE [buf |-> buf, rbucket |-> rb, start_riter |-> start_riter,
          cigar |-> cigar]

RECURSIVE CompactOuter(_, _, _, _)
\* while (rbucket != rc)
CompactOuter(buf, rbucket, start_riter, rc) ==
    IF rbucket = rc THEN [buf |-> buf, start_riter |-> start_riter]
    ELSE LET r == CompactInner(buf, rbucket, start_riter, rc, 0) IN
         CompactOuter([r.buf EXCEPT ![r.start_riter] = r.cigar],
                      r.rbucket, r.start_riter - 1, rc)

\* the CIGAR left as it is
CompactKeepsOps(c) == c

\* the fused ops stored, cigar_begin left where it was
CompactKeepsBegin(c) ==
    LET r == CompactOuter(c.buf, c.e - 1, c.e - 1, c.b - 1) IN
    [c EXCEPT !.buf = r.buf]

asw_compact_trace(c) ==
    LET r == CompactOuter(c.buf, c.e - 1, c.e - 1, c.b - 1) IN
    [c EXCEPT !.buf = r.buf, !.b = r.start_riter + 1]


(***************************************************************************)
(* The inputs the caller passes                                            *)
(***************************************************************************)
\* the reference / query pairs of the end-to-end scenarios: identical, one
\* mismatch, an insertion, a trailing mismatch, a free start, a deletion,
\* and a two-base query that a clip leaves with one base matching nothing
Pairs ==
    { << <<"A","C","G","T">>,             <<"A","C","G","T">> >>,
      << <<"A","C","G","T">>,             <<"A","C","C","T">> >>,
      << <<"A","C","G","T">>,             <<"A","C","G","G","T">> >>,
      << <<"A","C","G","G","T">>,         <<"A","C","G","T">> >>,
      << <<"T","T","T","A","C","G","T">>, <<"A","C","G","T">> >>,
      << <<"A","N","C","A">>,             <<"A","C","A">> >>,
      << <<"T","T","T","A","C","G","T">>, <<"C","A">> >> }
Refs    == {p[1] : p \in Pairs}
Queries == {p[2] : p \in Pairs}

\* every reference / query up to the length bounds, and the ones above
\* references whose every second base a query of A's skips
SkipRefs    == { <<"A","C","A","C","A">>, <<"A","C","A","C","A","C","A">> }
SkipQueries == { <<"A","A","A">>, <<"A","A","A","A">> }

ExhRefs    == SeqsOf(Bases, 1, MaxDbLen) \cup Refs \cup {<<"A","N","G","T">>}
                 \cup SkipRefs
ExhQueries == SeqsOf(Bases, 1, MaxQueryLen) \cup Queries \cup SkipQueries

UniformQuals(q) == {[i \in 1..Len(q) |-> b] : b \in QualBytes}
AnyQuals(q)     == [1..Len(q) -> QualBytes]
Clips           == 0..MaxClip
\* head and tail lengths passed to append_hardclip
HardClips       == {<<1, 0>>, <<0, 2>>}

(***************************************************************************)
(* Actions                                                                 *)
(***************************************************************************)
Usable == fault # "oob_write"

PrepareFrame ==
    UNCHANGED <<pc, mode, fault, hist, penvars, bindvars, vecPen_lastRow,
                optvars, cigvars>>

\* asw_prepare with one head and one tail clip for reference and query,
\* then asw_set_phoffset (as Qxalign_prepare does)
Prepare ==
    /\ pc = "ready" /\ db_len = 0 /\ query_len = 0
    /\ \E p \in Pairs, ch \in Clips, ct \in Clips :
         LET m_db == p[1]  m_query == p[2] IN
         /\ ch + ct < Len(m_db) /\ ch + ct < Len(m_query)
         /\ \E m_qual \in UniformQuals(m_query) :
              asw_prepare(m_db, m_query, m_qual, ch, ct)
    /\ phred_offset' = DEFAULT_PHRED_OFFSET
    /\ PrepareFrame

\* asw_prepare_db of the whole reference (as Qxalign_prepare_db does)
PrepareDb ==
    /\ pc = "ready" /\ db_len = 0
    /\ \E m_db \in Refs :
         /\ query_len = 0 \/ <<m_db, query>> \in Pairs
         /\ asw_prepare_db(m_db, 0, 0)
    /\ UNCHANGED phred_offset
    /\ PrepareFrame

\* asw_prepare_query of a clipped query, then asw_set_phoffset
PrepareQuery ==
    /\ pc = "ready" /\ query_len = 0
    /\ \E m_query \in Queries, ch \in Clips, ct \in Clips :
         /\ db_len = 0 \/ <<db, m_query>> \in Pairs
         /\ ch + ct < Len(m_query)
         /\ \E m_qual \in UniformQuals(m_query) :
              asw_prepare_query(m_query, m_qual, ch, ct)
    /\ phred_offset' = DEFAULT_PHRED_OFFSET
    /\ PrepareFrame

\* references shorter than the clips that OverClips can sum to
ShortRefs == { <<"A">>, <<"A", "C">> }
OverClips == 0..(MaxClip + 1)

\* asw_prepare_db as the first call on a new engine, with clips that sum to
\* more than the reference length.  A size_t is held as the integer nearest
\* to 0 that it is congruent to modulo 2^64, so -k stands for 2^64 - k.  The
\* views are assigned first.  A width of 2^64 - 1 asks the allocator for
\* (m_subdb_len + 1) * 4 = 0 bytes, which gives a block or NULL as the
\* allocator chooses (zero_block); any other wrapped width asks for more
\* than the address space, which gives NULL.  On NULL the call returns -1
\* with the buffers and subdb_len as they were.
PrepareDbOverClipped ==
    /\ pc = "ready" /\ db_len = 0 /\ query_len = 0
    /\ \E m_db \in ShortRefs, ch \in OverClips, ct \in OverClips,
          zero_block \in BOOLEAN :
         LET m_subdb_len == Len(m_db) - ch - ct IN
         /\ m_subdb_len < 0
         /\ db' = m_db
         /\ db_len' = Len(m_db)
         /\ subdb' = ch
         /\ IF m_subdb_len + 1 = 0 /\ zero_block
            THEN /\ matTra' = resize_matrix1(matTra, subdb_len, subquery_len,
                                             m_subdb_len, subquery_len)
                 /\ ResizeRows(m_subdb_len)
                 /\ subdb_len' = m_subdb_len
                 /\ pc' = "overclipped"
            ELSE /\ UNCHANGED <<matTra, rowvars, subdb_len>>
                 /\ pc' = "prepare_failed"
    /\ UNCHANGED <<query, qual, query_len, subquery, subquery_len>>
    /\ UNCHANGED <<mode, fault, hist, penvars, bindvars, phred_offset,
                   vecPen_lastRow, optvars, cigvars>>

\* asw_prepare of an unclipped pair with any per-base qualities
PrepareExh ==
    /\ pc = "ready" /\ db_len = 0 /\ query_len = 0
    /\ \E m_db \in ExhRefs, m_query \in ExhQueries :
         \E m_qual \in AnyQuals(m_query) :
              asw_prepare(m_db, m_query, m_qual, 0, 0)
    /\ phred_offset' = DEFAULT_PHRED_OFFSET
    /\ PrepareFrame

\* Qxalign_align refuses a zero-element matrix
CanAlign == pc = "ready" /\ subdb_len # 0 /\ subquery_len # 0

AlignInit ==
    /\ CanAlign
    /\ AlignInitWrites("global")
    /\ pc' = "init" /\ mode' = "global"
    /\ UNCHANGED <<fault, hist, penvars, bindvars, phred_offset, invars,
                   vecPen_lastRow, optvars, cigvars>>

AlignInitSemi ==
    /\ CanAlign
    /\ AlignInitWrites("semi")
    /\ pc' = "init" /\ mode' = "semi"
    /\ UNCHANGED <<fault, hist, penvars, bindvars, phred_offset, invars,
                   vecPen_lastRow, optvars, cigvars>>

\* after the loop the struct's *_m_act rows hold the last row when the
\* number of rows is even, its *_m1_act rows when it is odd
Align ==
    /\ pc = "init"
    /\ LET r    == AlignResult
           even == subquery_len % 2 = 0
           sm   == IF even THEN r.m ELSE r.m1
           sm1  == IF even THEN r.m1 ELSE r.m
       IN  /\ vecPen_m_act' = sm.pen /\ vecIns_m_act' = sm.ins
           /\ I_ext_m_act' = sm.ext
           /\ vecPen_m1_act' = sm1.pen /\ vecIns_m1_act' = sm1.ins
           /\ I_ext_m1_act' = sm1.ext
           /\ matTra' = r.tra
           /\ vecPen_lastRow' = IF even THEN "m" ELSE "m1"
    /\ pc' = "aligned"
    /\ UNCHANGED <<mode, fault, hist, penvars, bindvars, phred_offset, invars,
                   optvars, cigvars>>

LocateMinscore ==
    /\ pc = "aligned"
    /\ LET r == LocateMin(LastRow) IN
           /\ opt_score' = r.score
           /\ opt_score_col' = r.col
    /\ pc' = "located"
    /\ UNCHANGED <<mode, fault, hist, penvars, bindvars, phred_offset, invars,
                   rowvars, vecPen_lastRow, matTra, cigvars>>

\* what asw_trace stores, and whether it returned 0 or -1
TraceWrites ==
    LET r == TraceResult IN
    /\ rcigar' = r.buf
    /\ IF r.status = "ok"
       THEN /\ offset' = r.n1
            /\ cigar_begin' = r.rc + 1
            /\ cigar_end' = subquery_len + 2
            /\ pc' = "traced"
            /\ fault' = fault
       ELSE /\ UNCHANGED <<offset, cigar_begin, cigar_end>>
            /\ pc' = "trace_failed"
            /\ fault' = IF r.status = "bad_op" THEN fault ELSE r.status

Trace ==
    /\ pc = "located"
    /\ TraceWrites
    /\ hist' = << >>
    /\ UNCHANGED <<mode, penvars, bindvars, phred_offset, invars, rowvars,
                   vecPen_lastRow, matTra, optvars>>

\* the effect of a post-processing step that returned the record r
PostStep(r, call) ==
    /\ rcigar' = r.buf /\ cigar_begin' = r.b /\ cigar_end' = r.e
    /\ offset' = r.off
    /\ fault' = Worse(fault, r.status)
    /\ hist' = Append(hist, call)
    /\ UNCHANGED <<pc, mode, penvars, bindvars, phred_offset, invars, rowvars,
                   vecPen_lastRow, matTra, optvars>>

CanPost == pc = "traced" /\ Usable /\ Len(hist) < MaxPost

\* the reads the contraction loops may make outside the reference buffer
HeadJunk == IF subdb + offset - subquery < 0
            THEN JunkFor(subquery) ELSE {<< >>}
TailJunk == LET clip_tail == query_len - (subquery + subquery_len) IN
            IF subdb + offset + subdb_len - 1 + clip_tail >= db_len
            THEN JunkFor(clip_tail) ELSE {<< >>}

AppendSoftclip ==
    /\ CanPost
    /\ \E jh \in HeadJunk, jt \in TailJunk :
         PostStep(asw_append_softclip(Cig, jh, jt), "append_softclip")

AppendHardclip ==
    /\ CanPost
    /\ \E hc \in HardClips :
         PostStep(asw_append_hardclip(Cig, hc[1], hc[2]), "append_hardclip")

SoftclipTrace ==
    /\ CanPost
    /\ PostStep(asw_softclip_trace(Cig), "softclip_trace")

CompactTrace ==
    /\ CanPost
    /\ PostStep(asw_compact_trace(Cig), "compact_trace")

Next ==
    \/ Prepare \/ PrepareDb \/ PrepareQuery \/ PrepareDbOverClipped
    \/ AlignInit \/ AlignInitSemi \/ Align \/ LocateMinscore \/ Trace
    \/ AppendSoftclip \/ AppendHardclip \/ SoftclipTrace \/ CompactTrace

Spec == Init /\ [][Next]_vars

\* the alignment proper, over every small input
NextDP ==
    \/ PrepareExh
    \/ AlignInit \/ AlignInitSemi \/ Align \/ LocateMinscore \/ Trace

SpecDP == Init /\ [][NextDP]_vars

\* the alignment proper with penalties that make opening a gap cost what
\* extending it costs (asw_init with gap_open_extend = gap_extend)
EqualGapPenalties ==
    [match |-> DEFAULT_MATCH, mismatch |-> DEFAULT_MISMATCH,
     goe |-> DEFAULT_GAP_EXTEND, ge |-> DEFAULT_GAP_EXTEND]

InitEqualGap == InitWith(EqualGapPenalties)

SpecEqualGap == InitEqualGap /\ [][NextDP]_vars

\* the alignment proper with a deletion that costs less than half a
\* mismatch (asw_init(-10, 30, 10, 10))
CheapGapPenalties ==
    [match |-> DEFAULT_MATCH, mismatch |-> DEFAULT_MISMATCH,
     goe |-> 10, ge |-> 10]

InitCheapGap == InitWith(CheapGapPenalties)

SpecCheapGap == InitCheapGap /\ [][NextDP]_vars

(***************************************************************************)
(* The Python binding (qxalign.c).  A Py_buffer is modelled by the bytes   *)
(* it exposes; the engine's db, query and qual are the bytes of the buffer *)
(* the engine was last handed.                                             *)
(***************************************************************************)
PyRefs    == { <<"A","C">>, <<"C","A","C">> }
PyQueries == { <<"A">>, <<"C","C","A">> }
\* quality strings of 'I': one byte short of the query, and of its length
PyQuals(q) ==
    {[i \in 1..n |-> DEFAULT_PHRED_OFFSET + 40] :
        n \in {k \in {Len(q) - 1, Len(q)} : k >= 0}}
\* values of the assume_phred argument
AssumedPhreds == {-1, 40, PHRED_RANGE}

\* the object exists and no prepare call has failed on it
Alive == Usable /\ pc \notin {"prepare_failed", "freed"}

CanPrepare == Alive /\ prepares < MaxPrepares

BindFrame ==
    /\ prepares' = prepares + 1
    /\ UNCHANGED <<mode, fault, hist, penvars, vecPen_lastRow, optvars,
                   cigvars>>

\* a binding call that returned before it reached the engine
BindRejected(exc) ==
    /\ err' = exc
    /\ UNCHANGED <<pc, phred_offset, invars, rowvars, matTra>>

\* Qxalign_prepare / Qxalign_prepare_query from the quality checks on; the
\* new reference and query buffers are already stored in self
PrepareTail(m_db, m_query, has_qual, m_qual, assume_phred) ==
    /\ db_seq' = m_db /\ query_seq' = m_query
    /\ IF has_qual
       THEN IF Len(m_qual) < Len(m_query)
            THEN /\ BindRejected("IndexError")
                 /\ UNCHANGED <<query_qual, default_qual>>
            ELSE /\ query_qual' = m_qual
                 /\ asw_prepare(m_db, m_query, m_qual, 0, 0)
                 /\ phred_offset' = DEFAULT_PHRED_OFFSET
                 /\ pc' = "ready" /\ err' = "none"
                 /\ UNCHANGED default_qual
       ELSE IF assume_phred >= PHRED_RANGE \/ assume_phred < 0
            THEN /\ BindRejected("IndexError")
                 /\ UNCHANGED <<query_qual, default_qual>>
            ELSE LET tmp == [i \in 1..Len(m_query) |->
                                assume_phred + DEFAULT_PHRED_OFFSET]
                 IN  /\ default_qual' = tmp
                     /\ asw_prepare(m_db, m_query, tmp, 0, 0)
                     /\ phred_offset' = DEFAULT_PHRED_OFFSET
                     /\ pc' = "ready" /\ err' = "none"
                     /\ UNCHANGED query_qual
    /\ BindFrame

\* the quality argument: a buffer, or None with a value of assume_phred
WithQuality(m_db, m_query) ==
    \/ \E m_qual \in PyQuals(m_query) :
          PrepareTail(m_db, m_query, TRUE, m_qual, PHRED_RANGE - 1)
    \/ \E assume_phred \in AssumedPhreds :
          PrepareTail(m_db, m_query, FALSE, << >>, assume_phred)

QxalignPrepare ==
    /\ CanPrepare
    /\ \E m_db \in PyRefs, m_query \in PyQueries : WithQuality(m_db, m_query)

QxalignPrepareQuery ==
    /\ CanPrepare
    /\ \E m_query \in PyQueries : WithQuality(db_seq, m_query)

QxalignPrepareDb ==
    /\ CanPrepare
    /\ \E m_db \in PyRefs :
         /\ db_seq' = m_db
         /\ asw_prepare_db(m_db, 0, 0)
    /\ pc' = "ready" /\ err' = "none"
    /\ UNCHANGED <<query_seq, query_qual, default_qual, phred_offset>>
    /\ BindFrame

\* asw_align_init{,_semi}, asw_align and asw_locate_minscore in one call
QxalignAlign ==
    /\ Alive
    /\ IF subdb_len = 0 \/ subquery_len = 0
       THEN /\ err' = "IndexError"
            /\ UNCHANGED <<pc, mode, rowvars, vecPen_lastRow, matTra,
                           optvars>>
       ELSE \E semi \in BOOLEAN :
            LET i    == InitRows(IF semi THEN "semi" ELSE "global")
                r    == AlignRows(0,
                          [pen |-> i.pen, ins |-> i.ins, ext |-> i.ext],
                          [pen |-> vecPen_m1_act, ins |-> vecIns_m1_act,
                           ext |-> I_ext_m1_act],
                          i.tra)
                even == subquery_len % 2 = 0
                sm   == IF even THEN r.m ELSE r.m1
                sm1  == IF even THEN r.m1 ELSE r.m
                loc  == LocateMin(r.m.pen)
            IN  /\ vecPen_m_act' = sm.pen /\ vecIns_m_act' = sm.ins
                /\ I_ext_m_act' = sm.ext
                /\ vecPen_m1_act' = sm1.pen /\ vecIns_m1_act' = sm1.ins
                /\ I_ext_m1_act' = sm1.ext
                /\ matTra' = r.tra
                /\ vecPen_lastRow' = IF even THEN "m" ELSE "m1"
                /\ opt_score' = loc.score /\ opt_score_col' = loc.col
                /\ mode' = IF semi THEN "semi" ELSE "global"
                /\ pc' = "located" /\ err' = "none"
    /\ UNCHANGED <<fault, hist, penvars, phred_offset, invars, cigvars,
                   db_seq, query_seq, query_qual, default_qual, prepares>>

\* asw_trace whose p_realloc returned NULL: it returns -1 and writes nothing
TraceNoMem ==
    /\ pc' = "trace_failed"
    /\ UNCHANGED <<fault, cigvars>>

\* Qxalign_trace: the value asw_trace returns is not looked at
QxalignTrace ==
    /\ Alive
    /\ IF subdb_len = 0 \/ subquery_len = 0
       THEN /\ err' = "IndexError"
            /\ UNCHANGED <<pc, fault, cigvars>>
       ELSE /\ pc \in {"located", "traced", "trace_failed"}
            /\ (TraceWrites \/ TraceNoMem)
            /\ err' = "none"
    /\ UNCHANGED <<mode, hist, penvars, phred_offset, invars, rowvars,
                   vecPen_lastRow, matTra, optvars,
                   db_seq, query_seq, query_qual, default_qual, prepares>>

\* Qxalign_prepare with an accepted quality buffer whose asw_prepare
\* returns -1: MemoryError, asw_set_phoffset is not reached
QxalignPrepareNoMem ==
    /\ CanPrepare
    /\ \E m_db \in PyRefs, m_query \in PyQueries, moved \in BOOLEAN :
         LET m_qual == [i \in 1..Len(m_query) |-> DEFAULT_PHRED_OFFSET + 40]
         IN  \E k \in 0..(PrepareAllocs(Len(m_db), Len(m_query)) - 1) :
                /\ db_seq' = m_db /\ query_seq' = m_query
                /\ query_qual' = m_qual
                /\ asw_prepare_nomem(m_db, m_query, m_qual, 0, 0, k, moved)
    /\ err' = "MemoryError" /\ pc' = "prepare_failed"
    /\ UNCHANGED <<phred_offset, default_qual>>
    /\ BindFrame

\* Qxalign_dealloc: asw_free of the engine
QxalignDealloc ==
    /\ Usable /\ pc # "freed"
    /\ pc' = "freed"
    /\ fault' = IF FreeFault = "none" THEN fault ELSE FreeFault
    /\ UNCHANGED <<mode, hist, penvars, bindvars, phred_offset, invars,
                   rowvars, vecPen_lastRow, matTra, optvars, cigvars>>

NextPy ==
    \/ QxalignPrepare \/ QxalignPrepareQuery \/ QxalignPrepareDb
    \/ QxalignPrepareNoMem
    \/ QxalignAlign \/ QxalignTrace \/ QxalignDealloc

SpecPy == Init /\ [][NextPy]_vars

(***************************************************************************)
(* Vocabulary of the properties                                            *)
(***************************************************************************)
\* the aligned views as sequences
SubDbSeq    == SubSeq(db, subdb + 1, subdb + subdb_len)
SubQuerySeq == SubSeq(query, subquery + 1, subquery + subquery_len)
SubQualSeq  == SubSeq(qual, subquery + 1, subquery + subquery_len)

\* the CIGAR [cigar_begin, cigar_end) as a sequence of packed cells
CigarSeq ==
    [k \in 1..(cigar_end - cigar_begin) |-> rcigar[cigar_begin + k - 1]]

RECURSIVE SumLens(_, _)
\* total run length of the cells of seq whose op lies in ops
SumLens(seq, ops) ==
    IF seq = << >> THEN 0
    ELSE (IF CigarOp(Head(seq)) \in ops THEN CigarLen(Head(seq)) ELSE 0)
         + SumLens(Tail(seq), ops)

QueryOps == {BAM_CMATCH, BAM_CINS, BAM_CSOFT_CLIP, BAM_CSEQ_MATCH,
             BAM_CSEQ_MISMATCH}
RefOps   == {BAM_CMATCH, BAM_CDEL, BAM_CSEQ_MATCH, BAM_CSEQ_MISMATCH}
EndOps   == {BAM_CSEQ_MATCH, BAM_CSOFT_CLIP, BAM_CHARD_CLIP}

\* the quality byte 'I'
QualI == DEFAULT_PHRED_OFFSET + 40

\* the engine holds reference r and query q, unclipped, every quality 'I'
Holds(r, q) ==
    /\ db = r /\ subdb = 0 /\ subdb_len = Len(r)
    /\ query = q /\ subquery = 0 /\ subquery_len = Len(q)
    /\ qual = [i \in 1..Len(q) |-> QualI]
    /\ phred_offset = DEFAULT_PHRED_OFFSET

ACGT    == <<"A","C","G","T">>
ACGGT   == <<"A","C","G","G","T">>
ANGT    == <<"A","N","G","T">>
TTTACGT == <<"T","T","T","A","C","G","T">>

(***************************************************************************)
(* The naive affine-gap DP: three full matrices over (i, j), i query       *)
(* positions and j reference positions consumed, filled cell by cell.      *)
(***************************************************************************)
Min3(a, b, c) == Min2(Min2(a, b), c)

\* row 0 of the substitution matrix in mode md
NaiveTop(md, j) ==
    IF md = "semi" \/ j = 0 THEN 0
    ELSE (GAP_OPEN_EXTEND - GAP_EXTEND) + j * GAP_EXTEND

\* the cell (i, j) from the cells t already filled
NaiveCell(t, i, j, ref, qry, ql, md) ==
    LET qi == ql[IF i = 0 THEN 1 ELSE i] - phred_offset IN
    IF i = 0
    THEN [pen |-> NaiveTop(md, j),
          ins |-> NaiveTop(md, j) + (gopen_penalty[qi] - gext_penalty[qi]),
          del |-> NaiveTop(md, j)]
    ELSE IF j = 0
    THEN LET w == t[<<i - 1, 0>>].ins + gext_penalty[qi] IN
         [pen |-> w, ins |-> w, del |-> w + (GAP_OPEN_EXTEND - GAP_EXTEND)]
    ELSE
    LET wD == Min2(t[<<i, j - 1>>].pen + GAP_OPEN_EXTEND,
                   t[<<i, j - 1>>].del + GAP_EXTEND)
        wI == Min2(t[<<i - 1, j>>].pen + gopen_penalty[qi],
                   t[<<i - 1, j>>].ins + gext_penalty[qi])
        wM == t[<<i - 1, j - 1>>].pen
              + (IF IS_MATCH(ref[j], qry[i]) THEN match_penalty[qi]
                                             ELSE mismatch_penalty[qi])
    IN  [pen |-> Min3(wM, wI, wD), ins |-> wI, del |-> wD]

RECURSIVE NaiveFill(_, _, _, _, _, _, _)
NaiveFill(t, i, j, ref, qry, ql, md) ==
    IF i > Len(qry) THEN t
    ELSE IF j > Len(ref) THEN NaiveFill(t, i + 1, 0, ref, qry, ql, md)
    ELSE NaiveFill(t @@ (<<i, j>> :> NaiveCell(t, i, j, ref, qry, ql, md)),
                   i, j + 1, ref, qry, ql, md)

\* the minimum of the last row of the substitution matrix
NaiveScore(ref, qry, ql, md) ==
    LET t    == NaiveFill(<< >>, 0, 0, ref, qry, ql, md)
        last == {t[<<Len(qry), j>>].pen : j \in 0..Len(ref)}
    IN  CHOOSE v \in last : \A w \in last : v <= w

(***************************************************************************)
(* C1: for every reference, query and quality string, in global and in     *)
(* semi-global mode, the score stored by asw_align followed by             *)
(* asw_locate_minscore equals the minimum of the last row of the naive     *)
(* three-matrix DP over the same penalty tables and row-0 initialisation.  *)
(***************************************************************************)
C1_ScoreIsNaiveMinimum ==
    pc = "located" =>
        opt_score = NaiveScore(SubDbSeq, SubQuerySeq, SubQualSeq, mode)

\* an alignment of two rows or more whose best score is positive and is not
\* in the last column
C1_Witness ==
    /\ pc = "located" /\ mode = "semi" /\ subquery_len >= 2
    /\ opt_score > 0 /\ opt_score_col < subdb_len
    /\ opt_score = NaiveScore(SubDbSeq, SubQuerySeq, SubQualSeq, mode)

(***************************************************************************)
(* C2: after a successful trace the query-consuming run lengths sum to     *)
(* subquery_len; after asw_append_softclip they sum to query_len; and      *)
(* append_hardclip, softclip_trace and compact_trace, called afterwards in *)
(* any order and number, leave the sum unchanged (and stay in the buffer). *)
(***************************************************************************)
\* the calls the claim covers: append_softclip at most once, and first
SoftFirst(h) ==
    \A k \in 1..Len(h) : h[k] = "append_softclip" => k = 1

C2_Witness ==
    /\ pc = "traced" /\ Len(hist) = 3 /\ hist[1] = "append_softclip"
    /\ hist[2] = "softclip_trace" /\ hist[3] = "append_hardclip"
    /\ subquery > 0 /\ subquery + subquery_len < query_len
    /\ SumLens(CigarSeq, QueryOps) = query_len

(***************************************************************************)
(* C3: after trace and after every post-processing step the reference-     *)
(* consuming run lengths sum to opt_score_col - offset.                    *)
(***************************************************************************)
C3_RefSum ==
    (pc = "traced" /\ Usable) =>
        SumLens(CigarSeq, RefOps) = opt_score_col - offset

(***************************************************************************)
(* C4: the N wildcard is one-sided on the reference: a cell whose          *)
(* reference base is N never records a mismatch, a cell whose query base   *)
(* is N against another reference base never records a match, and query    *)
(* ACGT against reference ANGT gives 4= with the score of ACGT against     *)
(* ACGT.                                                                   *)
(***************************************************************************)
C4_ReferenceWildcard ==
    /\ pc \in {"aligned", "located", "traced"} =>
         \A m1 \in 1..subquery_len, n1 \in 1..subdb_len :
            LET op == CigarOp(matTra[m1][n1]) IN
            /\ SubDbAt(n1 - 1) = AMBIGUOUS_BASE => op # BAM_CSEQ_MISMATCH
            /\ (SubQueryAt(m1 - 1) = AMBIGUOUS_BASE
                  /\ SubDbAt(n1 - 1) # AMBIGUOUS_BASE) => op # BAM_CSEQ_MATCH
    /\ (pc = "traced" /\ mode = "global" /\ Holds(ANGT, ACGT)) =>
         /\ CigarSeq = <<Pack(4, BAM_CSEQ_MATCH)>>
         /\ opt_score = NaiveScore(ACGT, ACGT, qual, "global")

(***************************************************************************)
(* C5: with the default penalties and uniform quality 'I', a query aligned *)
(* in global mode to an identical reference of length L gives after trace  *)
(* the single op L= and after compact_trace the single op LM.              *)
(***************************************************************************)
C5_IdenticalIsOneRun ==
    (pc = "traced" /\ mode = "global" /\ Holds(query, query)
        /\ fault = "none") =>
        /\ hist = << >> => CigarSeq = <<Pack(query_len, BAM_CSEQ_MATCH)>>
        /\ hist = <<"compact_trace">> =>
              CigarSeq = <<Pack(query_len, BAM_CMATCH)>>

C5_Witness ==
    /\ pc = "traced" /\ mode = "global" /\ Holds(ACGT, ACGT)
    /\ hist = <<"compact_trace">>
    /\ CigarSeq = <<Pack(4, BAM_CMATCH)>>

(***************************************************************************)
(* C6 (as amended): with the default penalties and uniform quality 'I'     *)
(* the score of ACGT against the identical reference ACGT is 0: the entry  *)
(* match_penalty[40] is 10 + round(w(40) * -10) = 0, not negative.         *)
(***************************************************************************)
C6_IdenticalScoreIsZero ==
    (pc \in {"located", "traced"} /\ Holds(ACGT, ACGT)) =>
        /\ match_penalty[40] = 0
        /\ opt_score = 0

C6_Witness ==
    pc = "located" /\ mode = "global" /\ Holds(ACGT, ACGT) /\ opt_score = 0

\* C6 as stated: the score of the identical case is strictly negative
C6_IdenticalScoreNegative ==
    (pc \in {"located", "traced"} /\ Holds(ACGT, ACGT)) => opt_score < 0

(***************************************************************************)
(* C7 (as amended): with the default penalties and uniform quality 'I',    *)
(* query ACGGT against reference ACGT in global mode gives the CIGAR       *)
(* 2=1I2=: among the positions of equal score the inserted base is the     *)
(* leftmost one, a tie between M and I being decided for M.                *)
(***************************************************************************)
C7_InsertionLeftmost ==
    (pc = "traced" /\ mode = "global" /\ hist = << >>
        /\ Holds(ACGT, ACGGT)) =>
        CigarSeq = <<Pack(2, BAM_CSEQ_MATCH), Pack(1, BAM_CINS),
                     Pack(2, BAM_CSEQ_MATCH)>>

C7_Witness ==
    /\ pc = "traced" /\ mode = "global" /\ hist = << >>
    /\ Holds(ACGT, ACGGT)
    /\ Len(CigarSeq) = 3 /\ CigarOp(CigarSeq[2]) = BAM_CINS

\* C7 as stated: the CIGAR is 3=1I1=
C7_InsertionRightmost ==
    (pc = "traced" /\ mode = "global" /\ hist = << >>
        /\ Holds(ACGT, ACGGT)) =>
        CigarSeq = <<Pack(3, BAM_CSEQ_MATCH), Pack(1, BAM_CINS),
                     Pack(1, BAM_CSEQ_MATCH)>>

(***************************************************************************)
(* C8 (as amended): with the default penalties and uniform quality 'I',    *)
(* query ACGT against reference ACGGT in global mode gives the CIGAR 3=1X  *)
(* ending at reference column 4 with score 40: asw_locate_minscore takes   *)
(* the minimum of the whole last row, and the mismatch ending at column 4  *)
(* costs less than the deletion that reaches column 5.                     *)
(***************************************************************************)
C8_EndsBeforeLastColumn ==
    (pc = "traced" /\ mode = "global" /\ hist = << >>
        /\ Holds(ACGGT, ACGT)) =>
        /\ CigarSeq = <<Pack(3, BAM_CSEQ_MATCH), Pack(1, BAM_CSEQ_MISMATCH)>>
        /\ opt_score_col = 4 /\ opt_score = 40 /\ offset = 0

C8_Witness ==
    /\ pc = "traced" /\ mode = "global" /\ hist = << >>
    /\ Holds(ACGGT, ACGT)
    /\ opt_score_col < subdb_len

\* C8 as stated: the CIGAR is 3=1D1=, ending at the last reference column
C8_DeletionToLastColumn ==
    (pc = "traced" /\ mode = "global" /\ hist = << >>
        /\ Holds(ACGGT, ACGT)) =>
        /\ CigarSeq = <<Pack(3, BAM_CSEQ_MATCH), Pack(1, BAM_CDEL),
                        Pack(1, BAM_CSEQ_MATCH)>>
        /\ opt_score_col = subdb_len

(***************************************************************************)
(* C9: in semi-global mode leading reference bases are free: a query Q     *)
(* aligned to a reference P+Q, Q matching no earlier window of it, gives   *)
(* offset |P|, the single op |Q|= and the score of Q against Q.            *)
(***************************************************************************)
\* the window of the reference that ends at column j matches the query
WindowMatches(j) ==
    \A i \in 1..subquery_len :
        IS_MATCH(SubDbSeq[j - subquery_len + i], SubQuerySeq[i])

\* the reference ends with the query, and no earlier window matches it
FreeStartCase ==
    /\ subdb_len >= subquery_len
    /\ SubSeq(SubDbSeq, subdb_len - subquery_len + 1, subdb_len) = SubQuerySeq
    /\ \A j \in subquery_len..(subdb_len - 1) : ~WindowMatches(j)

C9_SemiGlobalFreeStart ==
    (pc = "traced" /\ mode = "semi" /\ hist = << >> /\ FreeStartCase) =>
        /\ offset = subdb_len - subquery_len
        /\ CigarSeq = <<Pack(subquery_len, BAM_CSEQ_MATCH)>>
        /\ opt_score = NaiveScore(SubQuerySeq, SubQuerySeq, SubQualSeq,
                                  "global")

C9_Witness ==
    /\ pc = "traced" /\ mode = "semi" /\ hist = << >>
    /\ Holds(TTTACGT, ACGT) /\ FreeStartCase
    /\ offset = 3 /\ CigarSeq = <<Pack(4, BAM_CSEQ_MATCH)>>

(***************************************************************************)
(* C10: after asw_softclip_trace, called on the CIGAR of a trace that was  *)
(* optionally followed by append_softclip and / or append_hardclip, the    *)
(* first and the last op of the CIGAR are each '=', S or H.                *)
(***************************************************************************)
\* trace, at most one append_softclip and one append_hardclip in either
\* order, then softclip_trace
ClipsThenSoftclipTrace(h) ==
    /\ h # << >> /\ h[Len(h)] = "softclip_trace"
    /\ \A k \in 1..(Len(h) - 1) :
          /\ h[k] \in {"append_softclip", "append_hardclip"}
          /\ \A l \in 1..(Len(h) - 1) : h[l] = h[k] => l = k

C10_EndsAreMatchOrClip ==
    (pc = "traced" /\ ClipsThenSoftclipTrace(hist)) =>
        /\ fault # "oob_write"
        /\ CigarSeq # << >>
        /\ CigarOp(CigarSeq[1]) \in EndOps
        /\ CigarOp(CigarSeq[Len(CigarSeq)]) \in EndOps

\* softclip_trace has replaced a mismatch or insertion at both ends
C10_Witness ==
    /\ pc = "traced" /\ hist = <<"softclip_trace">>
    /\ Len(CigarSeq) >= 3
    /\ CigarOp(CigarSeq[1]) = BAM_CSOFT_CLIP
    /\ CigarOp(CigarSeq[Len(CigarSeq)]) = BAM_CSOFT_CLIP

(***************************************************************************)
(* C11: asw_softclip_trace is idempotent: called a second time right after *)
(* itself, on a CIGAR of a trace optionally followed by append_softclip    *)
(* and / or append_hardclip, it leaves the CIGAR ops, cigar_begin,         *)
(* cigar_end and offset as the first call left them.                       *)
(***************************************************************************)
C11_SoftclipTraceIdempotent ==
    [][(pc = "traced" /\ ClipsThenSoftclipTrace(hist)
          /\ hist' = Append(hist, "softclip_trace"))
       => /\ cigar_begin' = cigar_begin
          /\ cigar_end' = cigar_end
          /\ offset' = offset
          /\ CigarSeq' = CigarSeq]_vars

(***************************************************************************)
(* C12: asw_compact_trace is idempotent: called a second time right after  *)
(* itself, on a CIGAR reached from a trace by any post-processing steps,   *)
(* it leaves the CIGAR ops, cigar_begin and cigar_end as the first call    *)
(* left them.                                                              *)
(***************************************************************************)
C12_CompactTraceIdempotent ==
    [][(pc = "traced" /\ hist # << >>
          /\ hist[Len(hist)] = "compact_trace"
          /\ hist' = Append(hist, "compact_trace"))
       => /\ cigar_begin' = cigar_begin
          /\ cigar_end' = cigar_end
          /\ CigarSeq' = CigarSeq]_vars

\* compact_trace called twice on a CIGAR whose first call fused ops
C12_Witness ==
    /\ pc = "traced" /\ fault = "none"
    /\ hist = <<"append_softclip", "compact_trace", "compact_trace">>
    /\ cigar_begin > 1
    /\ Len(CigarSeq) >= 3
    /\ \E k \in 1..Len(CigarSeq) :
          CigarOp(CigarSeq[k]) = BAM_CMATCH /\ CigarLen(CigarSeq[k]) >= 2

(***************************************************************************)
(* C13: asw_compact_trace replaces every maximal run of adjacent '=' and   *)
(* 'X' ops by one M op whose length is the sum of the run's lengths and    *)
(* copies every other op unchanged and in order; its result holds no '='   *)
(* and no 'X' op, and cigar_end is unchanged.                              *)
(***************************************************************************)
SubstOps == {BAM_CSEQ_MATCH, BAM_CSEQ_MISMATCH}

RECURSIVE FuseRuns(_, _)
\* seq read from its head, acc the length of the '=' / 'X' run being read
FuseRuns(seq, acc) ==
    LET flush == IF acc > 0 THEN <<Pack(acc, BAM_CMATCH)>> ELSE << >> IN
    IF seq = << >> THEN flush
    ELSE IF CigarOp(Head(seq)) \in SubstOps
    THEN FuseRuns(Tail(seq), acc + CigarLen(Head(seq)))
    ELSE flush \o <<Head(seq)>> \o FuseRuns(Tail(seq), 0)

C13_CompactFusesRuns ==
    [][(pc = "traced" /\ hist' = Append(hist, "compact_trace"))
       => /\ cigar_end' = cigar_end
          /\ CigarSeq' = FuseRuns(CigarSeq, 0)
          /\ \A k \in 1..Len(CigarSeq') :
                CigarOp(CigarSeq'[k]) \notin SubstOps]_vars

\* 1S 1X 1= 1X 2H compacted to 1S 3M 2H
C13_Witness ==
    /\ pc = "traced" /\ fault = "none"
    /\ hist = <<"append_softclip", "append_hardclip", "compact_trace">>
    /\ CigarSeq = <<Pack(1, BAM_CSOFT_CLIP), Pack(3, BAM_CMATCH),
                    Pack(2, BAM_CHARD_CLIP)>>

(***************************************************************************)
(* C14: a Qxalign_prepare or Qxalign_prepare_query call rejected with      *)
(* IndexError, because the quality buffer is shorter than the query or     *)
(* because assume_phred lies outside 0..93, changes no state: the buffers  *)
(* the binding holds and the engine's input views, lengths and buffers are *)
(* what they were before the call.                                         *)
(***************************************************************************)
C14_RejectedPrepareChangesNothing ==
    [][(prepares' = prepares + 1 /\ err' = "IndexError")
       => UNCHANGED <<db_seq, query_seq, query_qual, default_qual,
                      phred_offset, invars, rowvars, matTra>>]_vars

(***************************************************************************)
(* C15: when an allocation fails inside a prepare call the call returns an *)
(* error and the engine stays consistent: subquery_len and subdb_len are   *)
(* the row count and the row width of the trace matrix and the length of   *)
(* the rolling rows, the engine holds no pointer to freed or moved         *)
(* storage, and a following asw_free releases every block exactly once.    *)
(***************************************************************************)
\* a buffer of the width the engine records (or not yet allocated)
HasWidth(buf) ==
    \/ DOMAIN buf = 0..subdb_len
    \/ buf = NULL /\ subdb_len = 0

EngineConsistent ==
    /\ matTra # Freed
    /\ DOMAIN matTra = 0..subquery_len
    /\ \A r \in DOMAIN matTra :
          matTra[r] \notin {Freed, Wild} /\ HasWidth(matTra[r])
    /\ HasWidth(vecPen_m_act) /\ HasWidth(vecPen_m1_act)
    /\ HasWidth(vecIns_m_act) /\ HasWidth(vecIns_m1_act)
    /\ HasWidth(I_ext_m_act) /\ HasWidth(I_ext_m1_act)

C15_AllocFailureKeepsEngineConsistent ==
    /\ pc = "prepare_failed" => (err = "MemoryError" /\ EngineConsistent)
    /\ (pc = "freed" /\ err = "MemoryError") => fault = "none"

(***************************************************************************)
(* C16: when asw_trace fails (a cell read holds an op other than =, X, I,  *)
(* D, or the CIGAR buffer cannot be allocated) the caller of the binding's *)
(* trace operation gets an error.                                          *)
(***************************************************************************)
C16_TraceFailureIsReported ==
    pc = "trace_failed" => err # "none"

(***************************************************************************)
(* C17: engine reuse is deterministic: prepare, align and trace of an      *)
(* input on an engine that was used for another input before give the      *)
(* score, end column, offset and CIGAR they give on a new engine.  The     *)
(* results are compared with the same steps computed over buffers that     *)
(* were never written.                                                     *)
(***************************************************************************)
FreshRow == Realloc(NULL, subdb_len + 1)
FreshTra == [r \in 0..subquery_len |-> FreshRow]

\* alignment of the current input over new buffers
FreshAlign(md) ==
    AlignRows(0,
        [pen |-> [n1 \in 0..subdb_len |-> InitPen(md, n1)],
         ins |-> [n1 \in 0..subdb_len |-> InitPen(md, n1) + GopenTruePen],
         ext |-> [n1 \in 0..subdb_len |-> 0]],
        [pen |-> FreshRow, ins |-> FreshRow, ext |-> FreshRow],
        [FreshTra EXCEPT ![0] = [n1 \in 0..subdb_len |-> InitTra(n1)]])

\* traceback of the current trace matrix into a new CIGAR buffer
FreshTrace ==
    TraceLoop(subquery_len, opt_score_col,
              matTra[subquery_len][opt_score_col], subquery_len + 1,
              Realloc(NULL, subquery_len + 4))

C17_ReuseIsDeterministic ==
    /\ pc \in {"located", "traced"} =>
         LET f == FreshAlign(mode)  loc == LocateMin(f.m.pen) IN
         /\ matTra = f.tra
         /\ opt_score = loc.score
         /\ opt_score_col = loc.col
    /\ pc = "traced" =>
         LET t == FreshTrace IN
         /\ t.status = "ok"
         /\ offset = t.n1
         /\ cigar_begin = t.rc + 1 /\ cigar_end = subquery_len + 2
         /\ CigarSeq = [k \in 1..(cigar_end - cigar_begin) |-> t.buf[t.rc + k]]

\* a one-base query traced on an engine whose CIGAR buffer still holds, past
\* cigar_end, ops of the longer alignment traced before
C17_Witness ==
    /\ pc = "traced" /\ prepares = 2 /\ fault = "none"
    /\ subquery_len = 1 /\ subdb_len = 2
    /\ rcigar[cigar_end] # Undef

(***************************************************************************)
(* C18: clip arithmetic never wraps: after every prepare call, whatever    *)
(* the clips and the lengths, subdb_len <= db_len, subquery_len <=         *)
(* query_len, and the starts of the sub-views lie within the sequences.    *)
(* The lengths are size_t and are compared as such.  The model holds the   *)
(* start of the query view and of its quality view in the one variable     *)
(* subquery, as the code assigns both from clip_head.                      *)
(***************************************************************************)
\* a <= b of two size_t, where -k stands for 2^64 - k
SizeLe(a, b) == IF (a >= 0) = (b >= 0) THEN a <= b ELSE a >= 0

C18_ClipArithmeticNeverWraps ==
    /\ SizeLe(subdb_len, db_len)
    /\ SizeLe(subquery_len, query_len)
    /\ SizeLe(subdb, db_len)
    /\ SizeLe(subquery, query_len)

(***************************************************************************)
(* C19: in every interior cell (i >= 1, j >= 1) the stored score is        *)
(* min(wM, wI, wD) and the trace op follows M > I > D: an insertion iff    *)
(* wI < wM and not wD < wI; a deletion iff (wI < wM and wD < wI) or (not   *)
(* wI < wM and wD < wM); else the substitution op, '=' on a match and 'X'  *)
(* on a mismatch, of run length 1.  wM, wI and wD are those of the naive   *)
(* three-matrix DP; the scores the engine keeps are those of its last row. *)
(***************************************************************************)
NaiveTable == NaiveFill(<< >>, 0, 0, SubDbSeq, SubQuerySeq, SubQualSeq, mode)

\* the three candidate scores of the interior cell (i, j)
Candidates(t, i, j) ==
    LET qi == SubQualSeq[i] - phred_offset
        is_match == IS_MATCH(SubDbSeq[j], SubQuerySeq[i])
    IN  [ wM |-> t[<<i - 1, j - 1>>].pen
                   + (IF is_match THEN match_penalty[qi]
                                  ELSE mismatch_penalty[qi]),
          wI |-> t[<<i, j>>].ins,
          wD |-> t[<<i, j>>].del,
          subst |-> IF is_match THEN BAM_CSEQ_MATCH ELSE BAM_CSEQ_MISMATCH ]

\* the op the stated priority records for the candidates c
PriorityOp(c) ==
    IF c.wI < c.wM /\ ~(c.wD < c.wI) THEN BAM_CINS
    ELSE IF (c.wI < c.wM /\ c.wD < c.wI) \/ (~(c.wI < c.wM) /\ c.wD < c.wM)
    THEN BAM_CDEL
    ELSE c.subst

C19_CellPriority ==
    pc \in {"aligned", "located"} =>
        LET t == NaiveTable IN
        \A i \in 1..subquery_len, j \in 1..subdb_len :
            LET c == Candidates(t, i, j) IN
            /\ CigarOp(matTra[i][j]) = PriorityOp(c)
            /\ PriorityOp(c) = c.subst => CigarLen(matTra[i][j]) = 1
            /\ i = subquery_len => LastRow[j] = Min3(c.wM, c.wI, c.wD)

\* an alignment with a cell where insertion and deletion tie below the
\* substitution (the insertion is recorded) and a cell where deletion and
\* substitution tie below the insertion (the substitution is recorded)
C19_Witness ==
    /\ pc = "aligned"
    /\ LET t == NaiveTable
           cells == {Candidates(t, i, j) :
                        i \in 1..subquery_len, j \in 1..subdb_len}
       IN  /\ \E c \in cells : c.wI = c.wD /\ c.wI < c.wM
           /\ \E c \in cells : c.wD = c.wM /\ c.wM < c.wI

(***************************************************************************)
(* C20: prefer-extend tie-break: in every cell where opening a gap costs   *)
(* what extending the gap of the same kind costs (wD_open = wD_extend,     *)
(* wI_open = wI_extend) the extension is taken, and when that gap op is    *)
(* the one recorded in the trace cell its run length is at least 2.  The   *)
(* costs are those of the naive three-matrix DP.                           *)
(***************************************************************************)
\* the costs of opening and of extending a gap into the interior cell (i, j)
GapCosts(t, i, j) ==
    LET qi == SubQualSeq[i] - phred_offset IN
    [ wD_open   |-> t[<<i, j - 1>>].pen + GAP_OPEN_EXTEND,
      wD_extend |-> t[<<i, j - 1>>].del + GAP_EXTEND,
      wI_open   |-> t[<<i - 1, j>>].pen + gopen_penalty[qi],
      wI_extend |-> t[<<i - 1, j>>].ins + gext_penalty[qi] ]

C20_TieExtendsGap ==
    pc \in {"aligned", "located"} =>
        LET t == NaiveTable IN
        \A i \in 1..subquery_len, j \in 1..subdb_len :
            LET g == GapCosts(t, i, j) IN
            /\ (g.wD_open = g.wD_extend /\ CigarOp(matTra[i][j]) = BAM_CDEL)
                  => CigarLen(matTra[i][j]) >= 2
            /\ (g.wI_open = g.wI_extend /\ CigarOp(matTra[i][j]) = BAM_CINS)
                  => CigarLen(matTra[i][j]) >= 2

\* the run length of the gap that ends in cell (i, j) by the stated rule:
\* 1 when opening costs less, else the run length before it plus 1; the
\* leftmost column holds insertions only and row 0 no insertion
RECURSIVE NaiveInsRun(_, _, _)
NaiveInsRun(t, i, j) ==
    IF i = 0 THEN 0
    ELSE IF j = 0 THEN NaiveInsRun(t, i - 1, 0) + 1
    ELSE LET g == GapCosts(t, i, j) IN
         IF g.wI_open < g.wI_extend THEN 1
                                    ELSE NaiveInsRun(t, i - 1, j) + 1

RECURSIVE NaiveDelRun(_, _, _)
NaiveDelRun(t, i, j) ==
    IF j = 0 THEN 0
    ELSE LET g == GapCosts(t, i, j) IN
         IF g.wD_open < g.wD_extend THEN 1
                                    ELSE NaiveDelRun(t, i, j - 1) + 1

\* C20 as the code has it: on a tie the recorded run length is the run
\* length of the gap before the cell plus 1, which is at least 2 exactly
\* when a gap of that kind precedes: from column 2 on for a deletion and
\* from row 2 on for an insertion; in column 1 resp. row 1 it is 1
C20_TieExtendsRun ==
    pc \in {"aligned", "located"} =>
        LET t == NaiveTable IN
        \A i \in 1..subquery_len, j \in 1..subdb_len :
            LET g == GapCosts(t, i, j) IN
            /\ (g.wD_open = g.wD_extend /\ CigarOp(matTra[i][j]) = BAM_CDEL)
                  => /\ CigarLen(matTra[i][j]) = NaiveDelRun(t, i, j - 1) + 1
                     /\ CigarLen(matTra[i][j]) >= 2 <=> j >= 2
            /\ (g.wI_open = g.wI_extend /\ CigarOp(matTra[i][j]) = BAM_CINS)
                  => /\ CigarLen(matTra[i][j]) = NaiveInsRun(t, i - 1, j) + 1
                     /\ CigarLen(matTra[i][j]) >= 2 <=> i >= 2

\* an alignment with a deletion recorded on a tie with run length 2 or more
\* and an insertion recorded on a tie in row 1 with run length 1
C20_Witness ==
    /\ pc = "aligned"
    /\ LET t == NaiveTable IN
       /\ \E i \in 1..subquery_len, j \in 2..subdb_len :
             LET g == GapCosts(t, i, j) IN
             /\ g.wD_open = g.wD_extend
             /\ CigarOp(matTra[i][j]) = BAM_CDEL
             /\ CigarLen(matTra[i][j]) >= 2
       /\ \E j \in 1..subdb_len :
             LET g == GapCosts(t, 1, j) IN
             /\ g.wI_open = g.wI_extend
             /\ CigarOp(matTra[1][j]) = BAM_CINS
             /\ CigarLen(matTra[1][j]) = 1

(***************************************************************************)
(* C21: asw_locate_minscore stores as optimum score the minimum of the     *)
(* last score row over the columns 0..subdb_len, and as end column the     *)
(* smallest column at which that minimum occurs.                           *)
(***************************************************************************)
C21_LocateFirstMinimum ==
    pc = "located" =>
        /\ opt_score_col \in 0..subdb_len
        /\ opt_score = LastRow[opt_score_col]
        /\ \A n1 \in 0..subdb_len : opt_score <= LastRow[n1]
        /\ \A n1 \in 0..(opt_score_col - 1) : opt_score < LastRow[n1]

\* a last row whose minimum occurs at two columns or more, the first of
\* them not column 0
C21_Witness ==
    /\ pc = "located" /\ opt_score_col > 0
    /\ \E n1 \in (opt_score_col + 1)..subdb_len : LastRow[n1] = opt_score

(***************************************************************************)
(* C22: when asw_append_softclip meets an adjacent '=' or M op, it extends *)
(* that op by the number k of consecutive positions, walking outward, at   *)
(* which the clipped query byte equals the reference byte next to the      *)
(* aligned range on that side (tail: the query byte t past the sub-query   *)
(* against the reference byte at column opt_score_col + t of the           *)
(* sub-window; head: the bytes before the sub-query against those before   *)
(* column offset), k at most the clip length, and writes the rest of the   *)
(* clip, if any, as one S op.  Positions are 0-based indices into the      *)
(* caller's buffers; a position outside the reference ends the walk.       *)
(***************************************************************************)
RECURSIVE ExpectedTailK(_, _)
ExpectedTailK(t, clip_tail) ==
    LET qi == subquery + subquery_len - 1 + t
        ri == subdb + opt_score_col - 1 + t
    IN  IF t > clip_tail \/ ri >= db_len \/ query[qi + 1] # db[ri + 1]
        THEN 0
        ELSE 1 + ExpectedTailK(t + 1, clip_tail)

RECURSIVE ExpectedHeadK(_, _, _)
ExpectedHeadK(t, clip_head, off) ==
    LET qi == subquery - t
        ri == subdb + off - t
    IN  IF t > clip_head \/ ri < 0 \/ query[qi + 1] # db[ri + 1]
        THEN 0
        ELSE 1 + ExpectedHeadK(t + 1, clip_head, off)

\* the ops the stated contraction puts in place of the outermost op c of a
\* clipped side: c extended by k, and the rest of the clip as one S op
Contracted(c, clip, k) ==
    <<Pack(CigarLen(c) + k, CigarOp(c))>>
        \o (IF clip - k > 0 THEN <<Pack(clip - k, BAM_CSOFT_CLIP)>>
                            ELSE << >>)

Reverse(s) == [i \in 1..Len(s) |-> s[Len(s) + 1 - i]]

\* the CIGAR a trace result gets from the stated append_softclip when both
\* of its outermost ops are '='
ExpectedSoftclip(cig, off) ==
    LET clip_head == subquery
        clip_tail == query_len - (subquery + subquery_len)
        kh   == ExpectedHeadK(1, clip_head, off)
        kt   == ExpectedTailK(1, clip_tail)
        n    == Len(cig)
        head == IF clip_head = 0 THEN <<cig[1]>>
                ELSE Reverse(Contracted(cig[1], clip_head, kh))
        tail == IF clip_tail = 0 THEN <<cig[n]>>
                ELSE Contracted(cig[n], clip_tail, kt)
    IN  IF n = 1
        THEN \* one op, extended on both sides
             LET both == Pack(CigarLen(cig[1])
                                 + (IF clip_head = 0 THEN 0 ELSE kh)
                                 + (IF clip_tail = 0 THEN 0 ELSE kt),
                              CigarOp(cig[1]))
             IN  [seq |-> (IF clip_head - kh > 0
                           THEN <<Pack(clip_head - kh, BAM_CSOFT_CLIP)>>
                           ELSE << >>)
                          \o <<both>>
                          \o (IF clip_tail - kt > 0
                              THEN <<Pack(clip_tail - kt, BAM_CSOFT_CLIP)>>
                              ELSE << >>),
                  off |-> off - (IF clip_head = 0 THEN 0 ELSE kh)]
        ELSE [seq |-> head \o SubSeq(cig, 2, n - 1) \o tail,
              off |-> off - (IF clip_head = 0 THEN 0 ELSE kh)]

C22_SoftclipContractsByMatches ==
    [][(/\ pc = "traced" /\ hist = << >>
        /\ hist' = <<"append_softclip">>
        /\ CigarOp(CigarSeq[1]) = BAM_CSEQ_MATCH
        /\ CigarOp(CigarSeq[Len(CigarSeq)]) = BAM_CSEQ_MATCH)
       => /\ fault' = "none"
          /\ CigarSeq' = ExpectedSoftclip(CigarSeq, offset).seq
          /\ offset' = ExpectedSoftclip(CigarSeq, offset).off]_vars

(***************************************************************************)
(* C23: for every alignment and every penalty configuration, every cell    *)
(* asw_trace writes lies inside the CIGAR buffer of subquery_len + 4 cells *)
(* allocated for it, and at least one unused cell is left before           *)
(* cigar_begin and one after cigar_end - 1.                                *)
(***************************************************************************)
C23_TraceLeavesPadding ==
    (pc \in {"traced", "trace_failed"} /\ hist = << >>) =>
        /\ fault # "oob_write"
        /\ pc = "traced" =>
             /\ DOMAIN rcigar = 0..(subquery_len + 3)
             /\ 1 <= cigar_begin
             /\ cigar_end <= subquery_len + 3

(***************************************************************************)
(* C24: the global initialiser fills row 0 of the substitution scores with *)
(* vecPen[0] = 0 and vecPen[j] = vecPen[j - 1] + gext_penalty at the       *)
(* quality of query position 0, so that vecPen[j] = j * gext_penalty[q0].  *)
(***************************************************************************)
C24_GlobalRowZeroIsWeightedExtend ==
    (pc = "init" /\ mode = "global") =>
        LET q0 == SubQualSeq[1] - phred_offset IN
        \A j \in 0..subdb_len : vecPen_m_act[j] = j * gext_penalty[q0]

(***************************************************************************)
(* C25: after either initialiser, for every column j in 0..subdb_len:      *)
(* trace cell (0, 0) is (run length 0, '='), trace cell (0, j), j > 0, is  *)
(* (run length j, D), the insertion length of column j is 0, and           *)
(* vecIns[j] = vecPen[j] + (gopen - gext), gopen and gext being the        *)
(* entries of the gap tables at the quality of query position 0; in        *)
(* semi-global mode also vecPen[j] = 0.                                    *)
(***************************************************************************)
C25_RowZeroAfterInit ==
    pc = "init" =>
        LET q0 == SubQualSeq[1] - phred_offset IN
        \A j \in 0..subdb_len :
            /\ j = 0 => /\ CigarLen(matTra[0][0]) = 0
                        /\ CigarOp(matTra[0][0]) = BAM_CSEQ_MATCH
            /\ j > 0 => /\ CigarLen(matTra[0][j]) = j
                        /\ CigarOp(matTra[0][j]) = BAM_CDEL
            /\ I_ext_m_act[j] = 0
            /\ vecIns_m_act[j]
                  = vecPen_m_act[j] + (gopen_penalty[q0] - gext_penalty[q0])
            /\ mode = "semi" => vecPen_m_act[j] = 0

\* a semi-global row 0 of three columns or more, at a quality where the
\* difference of the table entries is not that of the base penalties
C25_Witness ==
    /\ pc = "init" /\ mode = "semi" /\ subdb_len >= 2
    /\ LET q0 == SubQualSeq[1] - phred_offset IN
       /\ gopen_penalty[q0] - gext_penalty[q0] # GAP_OPEN_EXTEND - GAP_EXTEND
       /\ vecIns_m_act[subdb_len] = gopen_penalty[q0] - gext_penalty[q0]
    /\ CigarLen(matTra[0][subdb_len]) = subdb_len

(***************************************************************************)
(* C26: in every interior cell (i, j) the deletion-open candidate is the   *)
(* substitution score of the previous query row at column j - 1, the cell  *)
(* wM is computed from, plus the base constant GAP_OPEN_EXTEND, and the    *)
(* deletion-extend candidate is the stored deletion score plus the base    *)
(* constant GAP_EXTEND; neither is quality-weighted.  The candidates are   *)
(* not kept by the engine; they are checked through the scores of the      *)
(* last row, which a three-matrix DP with the stated candidates gives.     *)
(***************************************************************************)
\* the cell (i, j) of the three-matrix DP whose deletion opens from the
\* cell src: "diag" is (i - 1, j - 1), "left" is (i, j - 1)
DelCell(t, i, j, src) ==
    LET qi == SubQualSeq[IF i = 0 THEN 1 ELSE i] - phred_offset IN
    IF i = 0 \/ j = 0
    THEN NaiveCell(t, i, j, SubDbSeq, SubQuerySeq, SubQualSeq, mode)
    ELSE
    LET from == IF src = "diag" THEN t[<<i - 1, j - 1>>].pen
                                ELSE t[<<i, j - 1>>].pen
        wD == Min2(from + GAP_OPEN_EXTEND, t[<<i, j - 1>>].del + GAP_EXTEND)
        wI == Min2(t[<<i - 1, j>>].pen + gopen_penalty[qi],
                   t[<<i - 1, j>>].ins + gext_penalty[qi])
        wM == t[<<i - 1, j - 1>>].pen
              + (IF IS_MATCH(SubDbSeq[j], SubQuerySeq[i])
                 THEN match_penalty[qi] ELSE mismatch_penalty[qi])
    IN  [pen |-> Min3(wM, wI, wD), ins |-> wI, del |-> wD]

RECURSIVE DelFill(_, _, _, _)
DelFill(t, i, j, src) ==
    IF i > subquery_len THEN t
    ELSE IF j > subdb_len THEN DelFill(t, i + 1, 0, src)
    ELSE DelFill(t @@ (<<i, j>> :> DelCell(t, i, j, src)), i, j + 1, src)

\* the claim as stated: the deletion opens from the cell wM comes from
C26_DeletionOpensFromDiagonal ==
    pc \in {"aligned", "located"} =>
        LET t == DelFill(<< >>, 0, 0, "diag") IN
        \A j \in 0..subdb_len : LastRow[j] = t[<<subquery_len, j>>].pen

\* C26 as the code has it: the deletion-open candidate is the substitution
\* score of the same query row at column j - 1, the cell to the left, plus
\* GAP_OPEN_EXTEND; the deletion-extend candidate is the stored deletion
\* score plus GAP_EXTEND; neither is quality-weighted
C26_DeletionOpensFromLeft ==
    pc \in {"aligned", "located"} =>
        LET t == DelFill(<< >>, 0, 0, "left") IN
        \A j \in 0..subdb_len : LastRow[j] = t[<<subquery_len, j>>].pen

\* a last row with a deletion opened from the cell to its left, at a
\* quality where the tables differ from the base constants, and where
\* opening from the diagonal cell would give another score
C26_Witness ==
    /\ pc = "aligned"
    /\ gopen_penalty[SubQualSeq[subquery_len] - phred_offset]
          # GAP_OPEN_EXTEND
    /\ \E j \in 1..subdb_len :
          /\ matTra[subquery_len][j] = Pack(1, BAM_CDEL)
          /\ LastRow[j] = LastRow[j - 1] + GAP_OPEN_EXTEND
          /\ DelFill(<< >>, 0, 0, "diag")[<<subquery_len, j>>].pen
                # LastRow[j]

(***************************************************************************)
(* C27: after any sequence of successful prepare, prepare_db and           *)
(* prepare_query calls on a newly allocated engine the trace matrix has    *)
(* exactly subquery_len + 1 allocated rows of subdb_len + 1 cells each,    *)
(* and each of the six rolling rows has subdb_len + 1 cells.               *)
(***************************************************************************)
\* an allocated buffer of exactly subdb_len + 1 cells
HasCapacity(buf) ==
    buf \notin {Freed, Wild} /\ DOMAIN buf = 0..subdb_len

C27_BuffersHaveRecordedCapacity ==
    (Alive /\ (db_len > 0 \/ query_len > 0)) =>
        /\ matTra # Freed
        /\ DOMAIN matTra = 0..subquery_len
        /\ \A r \in DOMAIN matTra : HasCapacity(matTra[r])
        /\ HasCapacity(vecPen_m_act) /\ HasCapacity(vecPen_m1_act)
        /\ HasCapacity(vecIns_m_act) /\ HasCapacity(vecIns_m1_act)
        /\ HasCapacity(I_ext_m_act) /\ HasCapacity(I_ext_m1_act)

\* the capacities are the recorded ones once a reference was prepared
C27_CapacityAfterReference ==
    (Alive /\ db_len > 0) =>
        /\ DOMAIN matTra = 0..subquery_len
        /\ \A r \in DOMAIN matTra : HasCapacity(matTra[r])
        /\ HasCapacity(vecPen_m_act) /\ HasCapacity(I_ext_m1_act)

(***************************************************************************)
(* C28: after prepare, align_init, align and locate_min every trace cell   *)
(* (i, j) with i >= 1 holds one of the ops =, X, I, D with a run length of *)
(* at least 1, a D run at (i, j) is at most j long and an I run at most i  *)
(* long; so the traceback from (subquery_len, opt_score_col) reads only    *)
(* cells with row in 0..subquery_len and column in 0..subdb_len, every     *)
(* step makes row + column smaller, and row 0 is reached without an        *)
(* unknown opcode.                                                         *)
(***************************************************************************)
TraceCellValid(i, j) ==
    LET c  == matTra[i][j]
        op == CigarOp(c)
        z  == CigarLen(c)
    IN  /\ op \in {BAM_CSEQ_MATCH, BAM_CSEQ_MISMATCH, BAM_CINS, BAM_CDEL}
        /\ z >= 1
        /\ op = BAM_CDEL => z <= j
        /\ op = BAM_CINS => z <= i
        /\ op \in {BAM_CSEQ_MATCH, BAM_CSEQ_MISMATCH} => (z <= i /\ z <= j)

RECURSIVE TracebackInRange(_, _)
\* the cells the traceback reads from (m1, n1) on: each is in the matrix,
\* each step is to a cell with a smaller row + column
TracebackInRange(m1, n1) ==
    /\ InTra(m1, n1)
    /\ m1 > 0 =>
         LET c  == matTra[m1][n1]
             op == CigarOp(c)
             z  == CigarLen(c)
             m2 == IF op = BAM_CDEL THEN m1 ELSE m1 - z
             n2 == IF op = BAM_CINS THEN n1 ELSE n1 - z
         IN  /\ op \in {BAM_CSEQ_MATCH, BAM_CSEQ_MISMATCH, BAM_CINS, BAM_CDEL}
             /\ m2 + n2 < m1 + n1
             /\ TracebackInRange(m2, n2)

C28_TracebackStaysInMatrix ==
    /\ pc \in {"aligned", "located"} =>
          \A i \in 1..subquery_len, j \in 0..subdb_len : TraceCellValid(i, j)
    /\ pc = "located" =>
          /\ TracebackInRange(subquery_len, opt_score_col)
          /\ TraceResult.status \notin {"oob_read", "bad_op"}

\* a matrix with a deletion run of 2 or more and an insertion run of the
\* row's index, and a traceback that passes a gap before it reaches row 0
C28_Witness ==
    /\ pc = "located"
    /\ \E i \in 1..subquery_len, j \in 2..subdb_len :
          /\ CigarOp(matTra[i][j]) = BAM_CDEL
          /\ CigarLen(matTra[i][j]) >= 2
    /\ \E i \in 2..subquery_len, j \in 1..subdb_len :
          matTra[i][j] = Pack(i, BAM_CINS)
    /\ TraceResult.status = "ok"
    /\ \E k \in (TraceResult.rc + 1)..(subquery_len + 1) :
          CigarOp(TraceResult.buf[k]) \in {BAM_CDEL, BAM_CINS}

(***************************************************************************)
(* C29: asw_softclip_trace leaves hard clips in place: a CIGAR that        *)
(* starts (ends) with an H op before the call starts (ends) with the same  *)
(* H op, of the same length, after it.                                     *)
(***************************************************************************)
C29_SoftclipTraceKeepsHardClips ==
    [][(/\ pc = "traced" /\ fault = "none" /\ CigarSeq # << >>
        /\ hist' = Append(hist, "softclip_trace"))
       => /\ CigarOp(CigarSeq[1]) = BAM_CHARD_CLIP =>
               (CigarSeq' # << >> /\ CigarSeq'[1] = CigarSeq[1])
          /\ CigarOp(CigarSeq[Len(CigarSeq)]) = BAM_CHARD_CLIP =>
               (CigarSeq' # << >>
                  /\ CigarSeq'[Len(CigarSeq')] = CigarSeq[Len(CigarSeq)])]_vars

(***************************************************************************)
(* asw_show_cigar: the CIGAR printed into a calloc'ed character buffer.    *)
(* A byte is a one-character string, the NUL byte the empty string.        *)
(***************************************************************************)
NUL == ""
cigar_chars == [op \in 0..8 |->
                  <<"M", "I", "D", "N", "S", "H", "P", "=", "X">>[op + 1]]

RECURSIVE ndigitsLoop(_, _)
ndigitsLoop(i, n) == IF i > 9 THEN ndigitsLoop(i \div 10, n + 1) ELSE n
ndigits(i) == ndigitsLoop(i, IF i < 0 THEN 2 ELSE 1)

RECURSIVE DecimalChars(_)
\* what "%d" prints for a number that is not negative
DecimalChars(num) ==
    LET d == <<"0", "1", "2", "3", "4", "5", "6", "7", "8", "9">>[(num % 10) + 1]
    IN  IF num < 10 THEN <<d>> ELSE Append(DecimalChars(num \div 10), d)

\* the bytes sprintf(p, "%d%c ", num, symbol) stores, the closing NUL included
SprintfBytes(cigar) ==
    DecimalChars(CigarLen(cigar))
        \o <<cigar_chars[CigarOp(cigar)], " ", NUL>>

RECURSIVE ShowCigarLen(_)
\* the first loop: ndigits + 2 bytes for each op
ShowCigarLen(seq) ==
    IF seq = << >> THEN 1
    ELSE ndigits(CigarLen(Head(seq))) + 2 + ShowCigarLen(Tail(seq))

RECURSIVE ShowCigarFill(_, _, _)
\* the second loop from the op at the head of seq on, p the offset of the
\* write pointer in buf; a store outside buf is recorded, not performed
ShowCigarFill(seq, p, r) ==
    IF seq = << >> THEN r
    ELSE LET bytes == SprintfBytes(Head(seq))
             at    == [k \in 1..Len(bytes) |-> p + k - 1]
         IN  ShowCigarFill(Tail(seq),
                 p + ndigits(CigarLen(Head(seq))) + 2,
                 [buf |-> [i \in DOMAIN r.buf |->
                             IF \E k \in 1..Len(bytes) : at[k] = i
                             THEN bytes[i - p + 1] ELSE r.buf[i]],
                  outside |-> r.outside \cup
                     {at[k] : k \in {l \in 1..Len(bytes) :
                                        at[l] \notin DOMAIN r.buf}}])

\* the buffer returned, its length, and the offsets of the bytes stored
\* outside it
asw_show_cigar(seq) ==
    LET n   == ShowCigarLen(seq)
        len == IF n > 1 THEN n - 1 ELSE n
        r   == ShowCigarFill(seq, 0,
                   [buf |-> [i \in 0..(len - 1) |-> NUL], outside |-> {}])
    IN  [len |-> len,
         buf |-> [r.buf EXCEPT ![len - 1] = NUL],
         outside |-> r.outside]

RECURSIVE CString(_, _)
\* the C string that starts at offset i of buf
CString(buf, i) ==
    IF i \notin DOMAIN buf \/ buf[i] = NUL THEN << >>
    ELSE <<buf[i]>> \o CString(buf, i + 1)

RECURSIVE Rendered(_)
\* the ops as <len><symbol>, one space between two ops
Rendered(seq) ==
    IF seq = << >> THEN << >>
    ELSE DecimalChars(CigarLen(Head(seq))) \o <<cigar_chars[CigarOp(Head(seq))]>>
         \o (IF Tail(seq) = << >> THEN << >> ELSE <<" ">> \o Rendered(Tail(seq)))

(***************************************************************************)
(* C30: asw_show_cigar writes only inside the buffer it allocates: for a   *)
(* CIGAR of at least one op every byte stored while rendering, the closing *)
(* NUL of each formatted op included, has an offset below the allocated    *)
(* length, and the string returned is the ops rendered as <len><symbol>.   *)
(***************************************************************************)
C30_ShowCigarWritesInsideBuffer ==
    (pc = "traced" /\ fault = "none" /\ CigarSeq # << >>) =>
        LET r == asw_show_cigar(CigarSeq) IN
        /\ r.outside = {}
        /\ CString(r.buf, 0) = Rendered(CigarSeq)

\* the string is the rendering whenever the stores are left aside
C30_ShowCigarString ==
    (pc = "traced" /\ fault = "none" /\ CigarSeq # << >>) =>
        LET r == asw_show_cigar(CigarSeq) IN
        /\ CString(r.buf, 0) = Rendered(CigarSeq)
        /\ r.outside = {r.len}

====
